---- MODULE Spec2Model ----
(***************************************************************************)
(* Model of kserve_deployer/widget.py (class KServeDeployer): checkpoint   *)
(* discovery from PyTorchJob pod logs, the checkpoint registry, path       *)
(* resolution and the InferenceService deployment.                         *)
(*                                                                         *)
(* Python strings are sequences of one-character strings, so that          *)
(* startswith, slicing, replace, regular expressions and sorting are       *)
(* computed as the interpreter computes them.  Python's None is the value  *)
(* None below, which is no character sequence.                             *)
(***************************************************************************)
EXTENDS Integers, Sequences, FiniteSets, TLC

(***************************************************************************)
(* Text primitives (Python str)                                            *)
(***************************************************************************)

None == <<"None">>

\* printable ASCII (the grave accent left out) in code-point order: Python
\* compares str by code point
Ascii == <<" ","!","\"","#","$","%","&","'","(",")","*","+",",","-",".","/","0","1","2","3","4","5","6","7","8","9",":",";","<","=",">","?","@","A","B","C","D","E","F","G","H","I","J","K","L","M","N","O","P","Q","R","S","T","U","V","W","X","Y","Z","[","\\","]","^","_","a","b","c","d","e","f","g","h","i","j","k","l","m","n","o","p","q","r","s","t","u","v","w","x","y","z","{","|","}","~">>

Chars == {Ascii[i] : i \in 1..Len(Ascii)}

Ord == [c \in Chars |-> CHOOSE i \in 1..Len(Ascii) : Ascii[i] = c]

Digits == {"0","1","2","3","4","5","6","7","8","9"}

UpperSeq == <<"A","B","C","D","E","F","G","H","I","J","K","L","M","N","O","P","Q","R","S","T","U","V","W","X","Y","Z">>

LowerSeq == <<"a","b","c","d","e","f","g","h","i","j","k","l","m","n","o","p","q","r","s","t","u","v","w","x","y","z">>

UpperLetters == {UpperSeq[i] : i \in 1..Len(UpperSeq)}

LowerLetters == {LowerSeq[i] : i \in 1..Len(LowerSeq)}

Letters == UpperLetters \cup LowerLetters

\* str.lower() on one character
LowerChar == [c \in Chars |-> IF c \in UpperLetters
                                THEN LowerSeq[CHOOSE i \in 1..Len(UpperSeq) : UpperSeq[i] = c]
                                ELSE c]

\* str.lower()
Lower(s) == [i \in 1..Len(s) |-> LowerChar[s[i]]]

\* s[i:] with a 1-based first index
From(s, i) == SubSeq(s, i, Len(s))

\* s.startswith(p)
StartsWith(s, p) == Len(p) <= Len(s) /\ SubSeq(s, 1, Len(p)) = p

\* s.find(sub) as a 1-based index, 0 when sub does not occur
Find(s, sub) ==
    LET hits == {i \in 1..(Len(s) - Len(sub) + 1) : SubSeq(s, i, i + Len(sub) - 1) = sub}
    IN  IF hits = {} THEN 0 ELSE CHOOSE i \in hits : \A j \in hits : i <= j

\* s.replace(old, new, 1): the first occurrence of old, wherever it is
ReplaceFirst(s, old, new) ==
    LET i == Find(s, old)
    IN  IF i = 0 THEN s
        ELSE SubSeq(s, 1, i - 1) \o new \o From(s, i + Len(old))

\* s.rfind(c) as a 1-based index, 0 when c does not occur
RFind(s, c) ==
    LET hits == {i \in 1..Len(s) : s[i] = c}
    IN  IF hits = {} THEN 0 ELSE CHOOSE i \in hits : \A j \in hits : j <= i

\* a < b for Python str
RECURSIVE StrLess(_, _)
StrLess(a, b) ==
    IF a = <<>> THEN b # <<>>
    ELSE IF b = <<>> THEN FALSE
    ELSE IF a[1] = b[1] THEN StrLess(Tail(a), Tail(b))
    ELSE Ord[a[1]] < Ord[b[1]]

\* sorted(xs) for a list of str: insertion of each element, duplicates kept
RECURSIVE InsertSorted(_, _)
InsertSorted(x, xs) ==
    IF xs = <<>> THEN <<x>>
    ELSE IF StrLess(xs[1], x) THEN <<xs[1]>> \o InsertSorted(x, Tail(xs))
    ELSE <<x>> \o xs

RECURSIVE Sorted(_)
Sorted(xs) == IF xs = <<>> THEN <<>> ELSE InsertSorted(xs[1], Sorted(Tail(xs)))


(***************************************************************************)
(* Regular expressions (Python re, flag IGNORECASE), as the backtracking   *)
(* matcher evaluates them.  A pattern is a sequence of items:              *)
(*   Lit(s)    the literal s (lower case; compared ignoring case)          *)
(*   Lazy      .*?   as few characters as possible                         *)
(*   Plus(c)   c+    as many characters of class c as possible, at least 1 *)
(*   One(c)    one character of class c                                    *)
(*   Alt(as)   (?:a1|a2|...) the alternatives tried in order               *)
(*   Open, Close  the parentheses of capture group 1                       *)
(***************************************************************************)

Lit(s) == [t |-> "lit", s |-> s]

Lazy == [t |-> "lazy"]

Plus(c) == [t |-> "plus", c |-> c]

One(c) == [t |-> "one", c |-> c]

Alt(as) == [t |-> "alt", as |-> as]

Open == [t |-> "open"]

Close == [t |-> "close"]

\* \w
WordChars == Letters \cup Digits \cup {"_"}

\* the character classes the patterns use
InClass(c, ch) ==
    CASE c = "path"      -> ch \in WordChars \cup {"/", "-", "."}   \* [/\w\-\./]
      [] c = "space"     -> ch = " "                                 \* \s
      [] c = "nonspace"  -> ch # " "                                 \* \S
      [] c = "digit"     -> ch \in Digits                            \* \d
      [] c = "dashunder" -> ch \in {"-", "_"}                        \* [-_]
      [] c = "letter"    -> ch \in Letters                           \* [a-zA-Z]

\* the literal lit stands at position i of s, ignoring case
LitAt(lit, s, i) ==
    /\ i + Len(lit) - 1 <= Len(s)
    /\ \A j \in 1..Len(lit) : LowerChar[s[i + j - 1]] = lit[j]

\* the number of consecutive characters of class c from position i of s
RECURSIVE Run(_, _, _)
Run(c, s, i) ==
    IF i <= Len(s) /\ InClass(c, s[i]) THEN 1 + Run(c, s, i + 1) ELSE 0

NoMatch == [ok |-> FALSE, gs |-> 0, ge |-> 0]

\* MatchAt(p, k, s, i, gs, ge): items k.. of p against s from position i, the
\* first success in the matcher's backtracking order; gs, ge are the bounds of
\* group 1 so far (ge is the position after its last character)
RECURSIVE MatchAt(_, _, _, _, _, _)
RECURSIVE TryUp(_, _, _, _, _, _)
RECURSIVE TryDown(_, _, _, _, _, _, _)
RECURSIVE TryAlts(_, _, _, _, _, _, _)
MatchAt(p, k, s, i, gs, ge) ==
    IF k > Len(p) THEN [ok |-> TRUE, gs |-> gs, ge |-> ge]
    ELSE LET it == p[k] IN
      CASE it.t = "lit"   -> IF LitAt(it.s, s, i)
                               THEN MatchAt(p, k + 1, s, i + Len(it.s), gs, ge)
                               ELSE NoMatch
        [] it.t = "open"  -> MatchAt(p, k + 1, s, i, i, ge)
        [] it.t = "close" -> MatchAt(p, k + 1, s, i, gs, i)
        [] it.t = "one"   -> IF i <= Len(s) /\ InClass(it.c, s[i])
                               THEN MatchAt(p, k + 1, s, i + 1, gs, ge)
                               ELSE NoMatch
        [] it.t = "lazy"  -> TryUp(p, k, s, i, gs, ge)
        [] it.t = "plus"  -> LET n == Run(it.c, s, i)
                             IN  IF n = 0 THEN NoMatch
                                 ELSE TryDown(p, k, s, i + n, i + 1, gs, ge)
        [] it.t = "alt"   -> TryAlts(p, k, s, i, 1, gs, ge)

\* .*? : continue at j = i, i+1, ... until the rest matches
TryUp(p, k, s, j, gs, ge) ==
    IF j > Len(s) + 1 THEN NoMatch
    ELSE LET r == MatchAt(p, k + 1, s, j, gs, ge)
         IN  IF r.ok THEN r ELSE TryUp(p, k, s, j + 1, gs, ge)

\* c+ : continue at j = the end of the run, giving back one character at a
\* time down to lo
TryDown(p, k, s, j, lo, gs, ge) ==
    IF j < lo THEN NoMatch
    ELSE LET r == MatchAt(p, k + 1, s, j, gs, ge)
         IN  IF r.ok THEN r ELSE TryDown(p, k, s, j - 1, lo, gs, ge)

\* (?:a1|a2|...) : the alternatives in order
TryAlts(p, k, s, i, a, gs, ge) ==
    IF a > Len(p[k].as) THEN NoMatch
    ELSE LET r == IF LitAt(p[k].as[a], s, i)
                    THEN MatchAt(p, k + 1, s, i + Len(p[k].as[a]), gs, ge)
                    ELSE NoMatch
         IN  IF r.ok THEN r ELSE TryAlts(p, k, s, i, a + 1, gs, ge)

\* re.search(p, s, re.IGNORECASE).group(1), or None when p matches nowhere:
\* the leftmost start position that matches
RECURSIVE SearchFrom(_, _, _)
SearchFrom(p, s, i) ==
    IF i > Len(s) + 1 THEN None
    ELSE LET r == MatchAt(p, 1, s, i, 0, 0)
         IN  IF r.ok THEN SubSeq(s, r.gs, r.ge - 1) ELSE SearchFrom(p, s, i + 1)

Search(p, s) == SearchFrom(p, s, 1)

\* a variant that looks for letters at the end only, with or without a dot
EndsWithLetters(s) ==
    \E n \in 2..4 :
        /\ Len(s) >= n + 1
        /\ \A k \in (Len(s) - n + 1)..Len(s) : s[k] \in Letters

\* bool(re.search(r'\.[a-zA-Z]{2,4}$', s))
EndsWithExtension(s) ==
    \E n \in 2..4 :
        /\ Len(s) >= n + 1
        /\ s[Len(s) - n] = "."
        /\ \A j \in (Len(s) - n + 1)..Len(s) : s[j] \in Letters

\* line.strip(): blanks are the only whitespace of the alphabet
RECURSIVE Strip(_)
Strip(s) ==
    IF s = <<>> THEN s
    ELSE IF s[1] = " " THEN Strip(Tail(s))
    ELSE IF s[Len(s)] = " " THEN Strip(SubSeq(s, 1, Len(s) - 1))
    ELSE s


(***************************************************************************)
(* The checkpoint patterns and directory extraction                        *)
(***************************************************************************)

\* the literal words of the patterns
W_saving == <<"s","a","v","i","n","g">>

W_saved == <<"s","a","v","e","d">>

W_checkpoint == <<"c","h","e","c","k","p","o","i","n","t">>

W_model == <<"m","o","d","e","l">>

W_to == <<"t","o">>

W_slash_checkpoint_dash == <<"/","c","h","e","c","k","p","o","i","n","t","-">>

W_saving_model_checkpoint_to == <<"s","a","v","i","n","g"," ","m","o","d","e","l"," ","c","h","e","c","k","p","o","i","n","t"," ","t","o">>

W_saved_checkpoint == <<"s","a","v","e","d"," ","c","h","e","c","k","p","o","i","n","t">>

W_dot == <<".">>

W_slash == <<"/">>

W_ckpt == <<"c","k","p","t">>

W_pt == <<"p","t">>

W_pth == <<"p","t","h">>

W_bin == <<"b","i","n">>

W_safetensors == <<"s","a","f","e","t","e","n","s","o","r","s">>

W_step == <<"s","t","e","p">>

W_epoch == <<"e","p","o","c","h">>

\* (?:ckpt|pt|pth|bin|safetensors)
FileExtensions == <<W_ckpt, W_pt, W_pth, W_bin, W_safetensors>>

\* ([/\w\-\./]+)
PathGroup == <<Open, Plus("path"), Close>>

\* checkpoint_patterns, in the declared order (Python index + 1)
checkpoint_patterns == <<
    \* saving.*?checkpoint.*?to\s+([/\w\-\./]+/checkpoint-\d+)
    <<Lit(W_saving), Lazy, Lit(W_checkpoint), Lazy, Lit(W_to), Plus("space"),
      Open, Plus("path"), Lit(W_slash_checkpoint_dash), Plus("digit"), Close>>,
    \* saved.*?checkpoint.*?to\s+([/\w\-\./]+/checkpoint-\d+)
    <<Lit(W_saved), Lazy, Lit(W_checkpoint), Lazy, Lit(W_to), Plus("space"),
      Open, Plus("path"), Lit(W_slash_checkpoint_dash), Plus("digit"), Close>>,
    \* checkpoint.*?saved.*?to\s+([/\w\-\./]+)
    <<Lit(W_checkpoint), Lazy, Lit(W_saved), Lazy, Lit(W_to), Plus("space")>> \o PathGroup,
    \* saving.*?model.*?to\s+([/\w\-\./]+)
    <<Lit(W_saving), Lazy, Lit(W_model), Lazy, Lit(W_to), Plus("space")>> \o PathGroup,
    \* saving model checkpoint to\s+([/\w\-\./]+)
    <<Lit(W_saving_model_checkpoint_to), Plus("space")>> \o PathGroup,
    \* model.*?checkpoint.*?saved.*?to\s+([/\w\-\./]+)
    <<Lit(W_model), Lazy, Lit(W_checkpoint), Lazy, Lit(W_saved), Lazy, Lit(W_to),
      Plus("space")>> \o PathGroup,
    \* saved checkpoint.*?(\S+)\.(?:ckpt|pt|pth|bin|safetensors)
    <<Lit(W_saved_checkpoint), Lazy, Open, Plus("nonspace"), Close, Lit(W_dot),
      Alt(FileExtensions)>>,
    \* saving.*?checkpoint.*?(\S+)\.(?:ckpt|pt|pth|bin|safetensors)
    <<Lit(W_saving), Lazy, Lit(W_checkpoint), Lazy, Open, Plus("nonspace"), Close,
      Lit(W_dot), Alt(FileExtensions)>>,
    \* checkpoint.*?saved.*?(\S+)\.(?:ckpt|pt|pth|bin|safetensors)
    <<Lit(W_checkpoint), Lazy, Lit(W_saved), Lazy, Open, Plus("nonspace"), Close,
      Lit(W_dot), Alt(FileExtensions)>>,
    \* model.*?saved.*?(\S+)\.(?:ckpt|pt|pth|bin|safetensors)
    <<Lit(W_model), Lazy, Lit(W_saved), Lazy, Open, Plus("nonspace"), Close,
      Lit(W_dot), Alt(FileExtensions)>>,
    \* saving.*?(?:checkpoint|model).*?([/\w\-\./]+/(?:checkpoint|ckpt|step|epoch)[-_]\d+)
    <<Lit(W_saving), Lazy, Alt(<<W_checkpoint, W_model>>), Lazy, Open, Plus("path"),
      Lit(W_slash), Alt(<<W_checkpoint, W_ckpt, W_step, W_epoch>>), One("dashunder"),
      Plus("digit"), Close>>,
    \* saved.*?(?:checkpoint|model).*?([/\w\-\./]+/(?:checkpoint|ckpt|step|epoch)[-_]\d+)
    <<Lit(W_saved), Lazy, Alt(<<W_checkpoint, W_model>>), Lazy, Open, Plus("path"),
      Lit(W_slash), Alt(<<W_checkpoint, W_ckpt, W_step, W_epoch>>), One("dashunder"),
      Plus("digit"), Close>> >>

\* file_pattern_indices = {6, 7, 8, 9} (0-based), as 1-based positions
file_pattern_indices == {7, 8, 9, 10}

\* os.path.dirname(p)
dirname(p) ==
    LET i == RFind(p, "/")
        head == SubSeq(p, 1, i)
        keep == {j \in 1..Len(head) : head[j] # "/"}
    IN  IF keep = {} THEN head
        ELSE SubSeq(head, 1, CHOOSE j \in keep : \A m \in keep : m <= j)

\* a variant that takes the parent directory of every match
extract_checkpoint_directory_parent(matched_path, pattern_index) ==
    IF StartsWith(matched_path, W_slash)
    THEN LET directory == dirname(matched_path)
         IN  IF directory # <<>> /\ directory # W_slash THEN directory ELSE None
    ELSE None

\* _extract_checkpoint_directory(matched_path, pattern_index), pattern_index
\* being the 1-based position of the pattern
extract_checkpoint_directory(matched_path, pattern_index) ==
    IF pattern_index \in file_pattern_indices
    THEN IF StartsWith(matched_path, W_slash)
         THEN LET directory == dirname(matched_path)
              IN  IF directory # <<>> /\ directory # W_slash THEN directory ELSE None
         ELSE None
    ELSE IF matched_path # <<>> /\ StartsWith(matched_path, W_slash)
            /\ ~EndsWithExtension(matched_path)
         THEN matched_path
         ELSE None

\* a variant of the loop that goes on to the next pattern when the match is
\* rejected
RECURSIVE first_accepted_match(_, _)
first_accepted_match(line, i) ==
    IF i > Len(checkpoint_patterns) THEN None
    ELSE LET matched_path == Search(checkpoint_patterns[i], line)
             directory == IF matched_path # None
                            THEN extract_checkpoint_directory(matched_path, i)
                            ELSE None
         IN  IF directory # None THEN directory
             ELSE first_accepted_match(line, i + 1)

\* the loop "for i, pattern in enumerate(checkpoint_patterns)" on one stripped
\* line: the first pattern that matches decides (break); the result is the
\* checkpoint directory, or None when no pattern matches or the match is
\* rejected
RECURSIVE first_match(_, _)
first_match(line, i) ==
    IF i > Len(checkpoint_patterns) THEN None
    ELSE LET matched_path == Search(checkpoint_patterns[i], line)
         IN  IF matched_path # None
             THEN extract_checkpoint_directory(matched_path, i)
             ELSE first_match(line, i + 1)

\* the checkpoint path one log line yields (None: nothing to record)
line_checkpoint(raw) ==
    LET line == Strip(raw)
    IN  IF line = <<>> THEN None ELSE first_match(line, 1)


(***************************************************************************)
(* NameSanitizer                                                           *)
(***************************************************************************)

W_inference_service == <<"i","n","f","e","r","e","n","c","e","-","s","e","r","v","i","c","e">>

W_svc == <<"s","v","c">>

W_svc_dash == <<"s","v","c","-">>

W_dash == <<"-">>

\* the Kubernetes name limit the sanitizer applies
MaxNameLen == 63

\* the length kept before the truncation marker
TruncatedLen == 60

\* [a-z0-9]
LowerAlnum == LowerLetters \cup Digits

\* a variant that takes the underscore for a legal character, as [^\w\-] would
replace_invalid_keep_underscore(s) ==
    [i \in 1..Len(s) |-> IF s[i] \in LowerAlnum \cup {"-", "_"} THEN s[i] ELSE "-"]

\* re.sub(r'[^a-z0-9\-]', '-', s)
replace_invalid(s) == [i \in 1..Len(s) |-> IF s[i] \in LowerAlnum \cup {"-"} THEN s[i] ELSE "-"]

\* a variant that replaces every pair of hyphens once, as
\* str.replace('--', '-') would
RECURSIVE collapse_hyphens_pairs(_)
collapse_hyphens_pairs(s) ==
    IF Len(s) < 2 THEN s
    ELSE IF s[1] = "-" /\ s[2] = "-"
         THEN <<"-">> \o collapse_hyphens_pairs(Tail(Tail(s)))
         ELSE <<s[1]>> \o collapse_hyphens_pairs(Tail(s))

\* re.sub(r'-+', '-', s)
RECURSIVE collapse_hyphens(_)
collapse_hyphens(s) ==
    IF Len(s) < 2 THEN s
    ELSE IF s[1] = "-" /\ s[2] = "-" THEN collapse_hyphens(Tail(s))
    ELSE <<s[1]>> \o collapse_hyphens(Tail(s))

\* re.sub(r'^[^a-z0-9]+', '', s)
RECURSIVE strip_leading(_)
strip_leading(s) ==
    IF s # <<>> /\ s[1] \notin LowerAlnum THEN strip_leading(Tail(s)) ELSE s

\* re.sub(r'[^a-z0-9]+$', '', s)
RECURSIVE strip_trailing(_)
strip_trailing(s) ==
    IF s # <<>> /\ s[Len(s)] \notin LowerAlnum
    THEN strip_trailing(SubSeq(s, 1, Len(s) - 1)) ELSE s

\* str.isalnum() on one ASCII character
IsAlnum(c) == c \in Letters \cup Digits

\* _sanitize_kubernetes_name(name)
sanitize_kubernetes_name(name) ==
    IF name = None \/ name = <<>> THEN W_inference_service
    ELSE LET folder_name == From(name, RFind(name, "/") + 1)
             stripped    == strip_trailing(strip_leading(
                               collapse_hyphens(replace_invalid(Lower(folder_name)))))
             nonempty    == IF stripped = <<>> THEN W_inference_service ELSE stripped
             limited     == IF Len(nonempty) > MaxNameLen
                              THEN SubSeq(nonempty, 1, TruncatedLen) \o W_svc
                              ELSE nonempty
         IN  IF ~IsAlnum(limited[1]) THEN W_svc_dash \o Tail(limited) ELSE limited

(***************************************************************************)
(* PathResolver                                                            *)
(***************************************************************************)

\* a variant in which the last entry that matches is applied
RECURSIVE map_path_last(_, _)
map_path_last(mapping, training_path) ==
    IF mapping = <<>> THEN training_path
    ELSE LET last == mapping[Len(mapping)]
         IN  IF StartsWith(training_path, last[1])
             THEN ReplaceFirst(training_path, last[1], last[2])
             ELSE map_path_last(SubSeq(mapping, 1, Len(mapping) - 1), training_path)

\* the loop of _map_checkpoint_path over a mapping given as the sequence of
\* its (training_prefix, deployment_prefix) items in dict order
RECURSIVE map_path(_, _)
map_path(mapping, training_path) ==
    IF mapping = <<>> THEN training_path
    ELSE IF StartsWith(training_path, mapping[1][1])
         THEN ReplaceFirst(training_path, mapping[1][1], mapping[1][2])
         ELSE map_path(Tail(mapping), training_path)

\* the volumes of a replica spec that name a claim: pvc_volume_mapping of
\* _get_pvc_mount_path_from_job, as the set of its keys
pvc_volume_names(replica_spec) ==
    {replica_spec.volumes[i].name : i \in {j \in 1..Len(replica_spec.volumes) :
        /\ replica_spec.volumes[j].claimName # None
        /\ replica_spec.volumes[j].name # None}}

\* the first claimName among a replica spec's volumes, or None
RECURSIVE first_claim(_)
first_claim(volumes) ==
    IF volumes = <<>> THEN None
    ELSE IF volumes[1].claimName # None THEN volumes[1].claimName
    ELSE first_claim(Tail(volumes))

\* the first result that is not None, of f applied along a sequence
RECURSIVE first_found(_, _)
first_found(f(_), xs) ==
    IF xs = <<>> THEN None
    ELSE IF f(xs[1]) # None THEN f(xs[1])
    ELSE first_found(f, Tail(xs))

\* the replica specs of a job in the order both lookups visit them:
\* 'pytorchReplicaSpecs' then 'replicaSpecs', each in dict order
replica_specs_of(pytorchjob) == pytorchjob.pytorchReplicaSpecs \o pytorchjob.replicaSpecs

\* _get_pytorchjob_pvc_name on the job the API returned
pvc_name_of(pytorchjob) ==
    LET claim_of(replica_spec) == first_claim(replica_spec.volumes)
    IN  first_found(claim_of, replica_specs_of(pytorchjob))

\* all volumeMounts of a replica spec, container by container
RECURSIVE all_mounts(_)
all_mounts(containers) ==
    IF containers = <<>> THEN <<>> ELSE containers[1] \o all_mounts(Tail(containers))

\* a variant that takes the first mountPath of a replica spec, whatever its
\* volume is
mount_in_any(replica_spec) ==
    LET path_of(volume_mount) ==
            IF volume_mount.mountPath # None /\ volume_mount.mountPath # <<>>
            THEN volume_mount.mountPath ELSE None
    IN  first_found(path_of, all_mounts(replica_spec.containers))

\* the first mountPath of a replica spec whose volume names a claim, or None
mount_in(replica_spec) ==
    LET names == pvc_volume_names(replica_spec)
        path_of(volume_mount) ==
            IF volume_mount.name \in names /\ volume_mount.mountPath # None
                /\ volume_mount.mountPath # <<>>
            THEN volume_mount.mountPath ELSE None
    IN  first_found(path_of, all_mounts(replica_spec.containers))

\* _get_pvc_mount_path_from_job on the job the API returned
pvc_mount_path_of(pytorchjob) == first_found(mount_in, replica_specs_of(pytorchjob))

\* a variant that keeps the separator after the mount path
relative_path_for_unstripped(checkpoint_path, pvc_mount_path) ==
    IF pvc_mount_path = None \/ pvc_mount_path = <<>> THEN None
    ELSE IF ~StartsWith(checkpoint_path, pvc_mount_path) THEN None
    ELSE LET relative_path == From(checkpoint_path, Len(pvc_mount_path) + 1)
         IN  IF relative_path = <<>> THEN None ELSE relative_path

\* _extract_relative_path_for_pvc once the mount path is known
relative_path_for(checkpoint_path, pvc_mount_path) ==
    IF pvc_mount_path = None \/ pvc_mount_path = <<>> THEN None
    ELSE IF ~StartsWith(checkpoint_path, pvc_mount_path) THEN None
    ELSE LET rest == From(checkpoint_path, Len(pvc_mount_path) + 1)
             relative_path == IF StartsWith(rest, W_slash) THEN Tail(rest) ELSE rest
         IN  IF relative_path = <<>> THEN None ELSE relative_path

W_pvc_scheme == <<"p","v","c",":","/","/">>

\* a variant that leaves out the separator after the claim name
storage_uri_of_joined(pvc_name, relative_path) == W_pvc_scheme \o pvc_name \o relative_path

\* storage_uri = f'pvc://{pvc_name}/{relative_path}'
storage_uri_of(pvc_name, relative_path) == W_pvc_scheme \o pvc_name \o W_slash \o relative_path


(***************************************************************************)
(* Names, paths and log lines of the modelled sessions                     *)
(***************************************************************************)

\* inference_service_name's initial value
W_my_inference_service == <<"m","y","-","i","n","f","e","r","e","n","c","e","-","s","e","r","v","i","c","e">>

\* the PyTorchJob of the cluster
W_train_1 == <<"t","r","a","i","n","-","1">>

W_models_pvc == <<"m","o","d","e","l","s","-","p","v","c">>

W_cache_pvc == <<"c","a","c","h","e","-","p","v","c">>

\* volume names
W_data == <<"d","a","t","a">>

W_cache == <<"c","a","c","h","e">>

W_scratch == <<"s","c","r","a","t","c","h">>

\* paths
P_model_dir == <<"/","o","p","t","/","m","o","d","e","l","-","d","i","r">>

P_checkpoint_200 == <<"/","o","p","t","/","m","o","d","e","l","-","d","i","r","/","c","h","e","c","k","p","o","i","n","t","-","2","0","0">>

P_sibling == <<"/","o","p","t","/","m","o","d","e","l","-","d","i","r","2","/","x">>

P_train == <<"/","t","r","a","i","n">>

P_other == <<"/","o","t","h","e","r">>

P_train_ckpt_5 == <<"/","t","r","a","i","n","/","c","k","p","t","-","5">>

P_other_ckpt_5 == <<"/","o","t","h","e","r","/","c","k","p","t","-","5">>

\* deployment prefixes
U_shared == <<"p","v","c",":","/","/","s","h","a","r","e","d">>

U_shared_ckpt_5 == <<"p","v","c",":","/","/","s","h","a","r","e","d","/","c","k","p","t","-","5">>

U_models_checkpoint_200 == <<"p","v","c",":","/","/","m","o","d","e","l","s","-","p","v","c","/","c","h","e","c","k","p","o","i","n","t","-","2","0","0">>

\* log lines a training job may write
L_checkpoint_200 == <<"S","a","v","i","n","g"," ","m","o","d","e","l"," ","c","h","e","c","k","p","o","i","n","t"," ","t","o"," ","/","o","p","t","/","m","o","d","e","l","-","d","i","r","/","c","h","e","c","k","p","o","i","n","t","-","2","0","0">>

L_sibling == <<"S","a","v","i","n","g"," ","m","o","d","e","l"," ","t","o"," ","/","o","p","t","/","m","o","d","e","l","-","d","i","r","2","/","x">>

L_mount_root == <<"S","a","v","i","n","g"," ","m","o","d","e","l"," ","t","o"," ","/","o","p","t","/","m","o","d","e","l","-","d","i","r">>

L_train_ckpt_5 == <<"C","h","e","c","k","p","o","i","n","t"," ","s","a","v","e","d"," ","t","o"," ","/","t","r","a","i","n","/","c","k","p","t","-","5">>

L_other_file == <<"s","a","v","e","d"," ","c","h","e","c","k","p","o","i","n","t"," ","/","o","t","h","e","r","/","c","k","p","t","-","5","/","m","o","d","e","l",".","p","t">>

L_progress == <<"e","p","o","c","h"," ","3"," ","l","o","s","s"," ","0",".","2","5">>

\* a line whose first matching pattern captures a relative path, and that a
\* file pattern matches too
L_rejected_first == <<"S","a","v","i","n","g"," ","m","o","d","e","l"," ","t","o"," ","o","u","t",".","b","i","n",","," ","s","a","v","e","d"," ","c","h","e","c","k","p","o","i","n","t"," ","/","t","r","a","i","n","/","c","k","p","t","-","5","/","m","o","d","e","l",".","p","t">>


W_pod_master == <<"t","r","a","i","n","-","1","-","m","a","s","t","e","r","-","0">>

W_pod_worker == <<"t","r","a","i","n","-","1","-","w","o","r","k","e","r","-","0">>

W_pod_other == <<"n","o","t","e","b","o","o","k","-","0">>

W_my_svc == <<"m","y","-","s","v","c">>

(***************************************************************************)
(* Bounds of the model                                                     *)
(***************************************************************************)

\* log lines written to the pods of the job during a session
MaxLogLines == 2

\* InferenceServices on the cluster
MaxServices == 1

\* the clock values a first_seen timestamp is taken from: 1..MaxTime
MaxTime == 2

(***************************************************************************)
(* The cluster a session talks to                                          *)
(***************************************************************************)

Vol(name, claimName) == [name |-> name, claimName |-> claimName]

Mnt(name, mountPath) == [name |-> name, mountPath |-> mountPath]

ReplicaSpec(volumes, containers) == [volumes |-> volumes, containers |-> containers]

Job(pytorchReplicaSpecs, replicaSpecs) ==
    [pytorchReplicaSpecs |-> pytorchReplicaSpecs, replicaSpecs |-> replicaSpecs]

\* one PVC, mounted by the one container
J_std == Job(<<ReplicaSpec(<<Vol(W_data, W_models_pvc)>>,
                           <<<<Mnt(W_data, P_model_dir)>>>>)>>, <<>>)

\* no PVC-backed volume
J_none == Job(<<ReplicaSpec(<<Vol(W_scratch, None)>>,
                            <<<<Mnt(W_scratch, P_model_dir)>>>>)>>, <<>>)

\* a PVC-backed volume that no container mounts
J_unmounted == Job(<<ReplicaSpec(<<Vol(W_data, W_models_pvc), Vol(W_scratch, None)>>,
                                 <<<<Mnt(W_scratch, P_model_dir)>>>>)>>, <<>>)

\* two PVC-backed volumes, the container mounts the second only
J_two == Job(<<ReplicaSpec(<<Vol(W_data, W_models_pvc), Vol(W_cache, W_cache_pvc)>>,
                           <<<<Mnt(W_cache, P_model_dir)>>>>)>>, <<>>)

\* two replica specs: the first declares a PVC and mounts nothing, the second
\* declares and mounts another PVC
J_workers == Job(<<ReplicaSpec(<<Vol(W_data, W_models_pvc)>>, <<<<>>>>),
                   ReplicaSpec(<<Vol(W_cache, W_cache_pvc)>>,
                               <<<<Mnt(W_cache, P_model_dir)>>>>)>>, <<>>)

\* the 'replicaSpecs' family, two containers
J_legacy == Job(<<>>, <<ReplicaSpec(<<Vol(W_scratch, None), Vol(W_data, W_models_pvc)>>,
                                    <<<<Mnt(W_scratch, P_other)>>,
                                      <<Mnt(W_data, P_model_dir)>>>>)>>)

Pod(name, labels) == [name |-> name, labels |-> labels]

\* the pods of a namespace, in the order the API lists them
Pods_master == <<Pod(W_pod_master, {<<"training.kubeflow.org/job-name", W_train_1>>})>>

Pods_two == <<Pod(W_pod_master, {<<"training.kubeflow.org/job-name", W_train_1>>}),
              Pod(W_pod_worker, {<<"app.kubernetes.io/name", W_train_1>>})>>

Pods_named == <<Pod(W_pod_other, {}), Pod(W_pod_worker, {})>>

Pods_unrelated == <<Pod(W_pod_other, {})>>

\* two pods of the job under the same label
Pods_pair == <<Pod(W_pod_master, {<<"training.kubeflow.org/job-name", W_train_1>>}),
               Pod(W_pod_worker, {<<"training.kubeflow.org/job-name", W_train_1>>})>>

\* path_mapping as the sequence of its items
T_none == <<>>

T_train == <<<<P_train, U_shared>>>>

T_collide == <<<<P_train, P_model_dir>>, <<P_other, P_model_dir>>>>

\* a session: the job, the path_mapping, the pods, their logs at the start and
\* the lines the training may log later
Scenario(job, mapping, podlist, logs, lines) ==
    [job |-> job, mapping |-> mapping, pods |-> podlist, logs |-> logs, lines |-> lines]

\* the end-to-end session: the job logs its checkpoint while the session runs
SessionScenarios ==
    {Scenario(J_std, T_none, Pods_master, <<<<>>>>, {L_checkpoint_200})}

\* deployments: the plain job with checkpoints under the mount path, beside it
\* and at it already in the log, and every other job with one checkpoint
DeployScenarios ==
    {Scenario(J_std, T_none, Pods_master, <<<<L_checkpoint_200, L_sibling, L_mount_root>>>>, {})}
    \cup {Scenario(j, T_none, Pods_master, <<<<L_checkpoint_200>>>>, {}) :
              j \in {J_none, J_unmounted, J_two, J_workers, J_legacy}}

\* discovery: path_mappings and sets of pods, the job logging while the
\* session runs
RegistryScenarios ==
    {Scenario(J_std, T_train, Pods_master, <<<<>>>>, {L_train_ckpt_5}),
     Scenario(J_std, T_collide, Pods_master, <<<<>>>>, {L_train_ckpt_5, L_other_file})}
    \cup {Scenario(J_std, T_none, ps, <<<<>>, <<>>>>, {L_checkpoint_200}) :
              ps \in {Pods_two, Pods_named}}
    \cup {Scenario(J_std, T_none, Pods_unrelated, <<<<>>>>, {L_checkpoint_200, L_progress}),
          Scenario(J_std, T_none, Pods_master, <<<<>>>>, {L_rejected_first, L_other_file}),
          Scenario(J_std, T_none, Pods_two, <<<<>>, <<L_sibling>>>>, {L_checkpoint_200}),
          Scenario(J_std, T_none, Pods_pair, <<<<L_checkpoint_200>>, <<L_sibling>>>>, {})}

(***************************************************************************)
(* State of a session (the fields of KServeDeployer and of its widgets)    *)
(* and of the cluster                                                      *)
(***************************************************************************)

VARIABLES
    path_mapping,             \* self.path_mapping, as the sequence of its items
    kube_token,               \* self.kube_token.value is not empty
    pytorchjob,               \* the PyTorchJob train-1 of the cluster
    pods,                     \* the pods of the namespace
    pod_logs,                 \* per pod (by position in pods): the lines of its log
    training_lines,           \* the lines the training may still log
    detected_checkpoints,     \* self.detected_checkpoints
    last_checkpoint_time,     \* self.last_checkpoint_time
    checkpoints_options,      \* self.checkpoints_dropdown.options
    checkpoints_value,        \* self.checkpoints_dropdown.value
    inference_service_name,   \* self.inference_service_name.value
    pytorchjob_value,         \* the job name of self.pytorchjob_dropdown.value
    services,                 \* the InferenceServices of the cluster
    inferenceservice_options, \* self.inferenceservice_dropdown.options (names)
    inferenceservice_value,   \* self.inferenceservice_dropdown.value (name)
    monitor_logs_checkbox,    \* self.monitor_logs_checkbox.value
    stop_monitoring,          \* self.stop_monitoring
    log_monitor_alive,        \* self.log_monitor_thread.is_alive()
    monitor_pods_found,       \* the worker's local pods_found
    log_status,               \* self.log_status.value
    clock,                    \* the wall clock
    reports,                  \* what the last scan or poll cycle printed per match
    deploy_result,            \* what the last click on Create did
    call,                     \* the call of a function under test, and its result
    scan_thread,              \* where the foreground is in _scan_job_for_checkpoints
    monitor_thread,           \* where the worker is in a cycle of _monitor_logs_worker
    watch_service_checkbox,   \* self.watch_service_checkbox.value
    stop_service_watching,    \* self.stop_service_watching
    service_watch_alive,      \* self.service_watch_thread.is_alive()
    watch_status,             \* self.watch_status.value
    watch_thread,             \* the locals of _watch_service_worker
    watch_poll,               \* what the last poll of the worker saw and printed
    monitor_workers,          \* how many threads run _monitor_logs_worker
    watch_workers,            \* how many threads run _watch_service_worker
    destroyed                 \* __del__ has run

vars == <<path_mapping, kube_token, pytorchjob, pods, pod_logs, training_lines,
          detected_checkpoints, last_checkpoint_time, checkpoints_options,
          checkpoints_value, inference_service_name, pytorchjob_value, services,
          inferenceservice_options, inferenceservice_value, monitor_logs_checkbox,
          stop_monitoring, log_monitor_alive, monitor_pods_found, log_status,
          clock, reports, deploy_result, call, scan_thread, monitor_thread,
          watch_service_checkbox, stop_service_watching, service_watch_alive,
          watch_status, watch_thread, watch_poll, monitor_workers, watch_workers,
          destroyed>>

cluster_vars == <<path_mapping, pytorchjob, pods, training_lines>>

registry_vars == <<detected_checkpoints, last_checkpoint_time>>

checkpoint_widget_vars == <<checkpoints_options, checkpoints_value, inference_service_name>>

service_widget_vars == <<inferenceservice_options, inferenceservice_value>>

thread_vars == <<scan_thread, monitor_thread>>

watch_vars == <<watch_service_checkbox, stop_service_watching, service_watch_alive,
                watch_status, watch_thread, watch_poll, watch_workers>>

\* the locals of _watch_service_worker before its first poll
\* (last_ready_status = None, last_full_status = None)
NewWatchThread(service_name) ==
    [service_name |-> service_name, last_ready_status |-> "None",
     last_full_status |-> None]

\* no poll yet: outcome is how the last poll ended, printed the events it
\* printed, observed the status the service had at the last successful poll of
\* the worker (a list of one status, empty before that poll) and previous the
\* one at the successful poll before it, unbroken whether every successful
\* poll since the last "is now READY" has observed Ready True, retried whether
\* the poll before the last successful one ended in an error
NoPoll ==
    [outcome |-> "none", printed |-> {}, observed |-> <<>>, previous |-> <<>>,
     unbroken |-> FALSE, retried |-> FALSE]

\* a thread outside the per-match code: pc is the statement it is about to
\* run, todo the matches it has still to handle, checkpoint_path and timestamp
\* its locals, printed what the pass has printed per match, iterated the set
\* find_checkpoints began to iterate over; lines the lines of the log it is
\* going through, read the pods whose log the cycle has asked for and failed
\* the API call of the cycle that raised last ("none" when the last one returned)
IdleThread ==
    [pc |-> "idle", todo |-> <<>>, checkpoint_path |-> None, timestamp |-> 0,
     printed |-> <<>>, known |-> {}, iterated |-> {}, lines |-> <<>>, read |-> <<>>,
     failed |-> "none"]

monitor_vars == <<monitor_logs_checkbox, stop_monitoring, log_monitor_alive,
                  monitor_pods_found, log_status, monitor_workers>>

NoDeploy == [outcome |-> "none", requests |-> <<>>]

NoCall == [fn |-> "none", args |-> <<>>, result |-> None]

\* a call of fn on args, its result Pending until it returns
Pending == <<"pending">>

Call(fn, args, result) == [fn |-> fn, args |-> args, result |-> result]

\* {}
EmptyDict == [k \in {} |-> None]

\* the state after __init__ in one of the sessions of S: no token yet, so both
\* listings are empty
SessionInitOn(S, cluster_services) ==
    /\ \E sc \in S :
        /\ path_mapping = sc.mapping
        /\ pytorchjob = sc.job
        /\ pods = sc.pods
        /\ training_lines = sc.lines
        /\ pod_logs = sc.logs
    /\ clock = 1
    /\ kube_token = FALSE
    /\ detected_checkpoints = {}
    /\ last_checkpoint_time = EmptyDict
    /\ checkpoints_options = <<>>
    /\ checkpoints_value = None
    /\ inference_service_name = W_my_inference_service
    /\ pytorchjob_value = None
    /\ services = cluster_services
    /\ inferenceservice_options = <<>>
    /\ inferenceservice_value = None
    /\ monitor_logs_checkbox = FALSE
    /\ stop_monitoring = FALSE
    /\ log_monitor_alive = FALSE
    /\ monitor_pods_found = FALSE
    /\ log_status = "Inactive"
    /\ reports = <<>>
    /\ deploy_result = NoDeploy
    /\ scan_thread = IdleThread
    /\ monitor_thread = IdleThread
    /\ watch_service_checkbox = FALSE
    /\ stop_service_watching = FALSE
    /\ service_watch_alive = FALSE
    /\ watch_status = "Inactive"
    /\ watch_thread = NewWatchThread(None)
    /\ watch_poll = NoPoll
    /\ monitor_workers = 0
    /\ watch_workers = 0
    /\ destroyed = FALSE

\* the state after __init__ on a cluster without services
SessionInit(S) == SessionInitOn(S, <<>>)

InitOf(S) == SessionInit(S) /\ call = NoCall

Init == InitOf(SessionScenarios)


(***************************************************************************)
(* CheckpointRegistry and the checkpoint dropdown                          *)
(***************************************************************************)

\* _map_checkpoint_path(training_path)
map_checkpoint_path(training_path) == map_path(path_mapping, training_path)

\* the elements of a set in the order an iteration visits them (any order)
RECURSIVE SetToSeq(_)
SetToSeq(S) ==
    IF S = {} THEN <<>>
    ELSE LET x == CHOOSE y \in S : TRUE IN <<x>> \o SetToSeq(S \ {x})

\* a list of the mapped paths in the order the set was gone through
mapped_in_iteration_order(originals) ==
    [i \in 1..Len(originals) |-> map_checkpoint_path(originals[i])]

\* the body of find_checkpoints() when "for original_path in
\* self.detected_checkpoints" visits the paths in the order originals
find_checkpoints_over(originals) ==
    LET mapped_checkpoints == [i \in 1..Len(originals) |-> map_checkpoint_path(originals[i])]
    IN  Sorted(mapped_checkpoints)

\* find_checkpoints() for a given set of detected checkpoints
find_checkpoints_of(detected) == find_checkpoints_over(SetToSeq(detected))

\* find_checkpoints()
find_checkpoints == find_checkpoints_of(detected_checkpoints)

\* the lines the model's logs are made of, and what each yields
LogLines == {L_checkpoint_200, L_sibling, L_mount_root, L_train_ckpt_5, L_other_file,
             L_progress, L_rejected_first}

checkpoint_of == [line \in LogLines |-> line_checkpoint(line)]

\* the service names of the entries the logs can put in the dropdown, under the
\* path_mappings of the sessions
generated_service_name ==
    [path \in {map_path(mapping, checkpoint_of[line]) :
                  mapping \in {T_none, T_train, T_collide},
                  line \in {l \in LogLines : checkpoint_of[l] # None}}
        |-> sanitize_kubernetes_name(path)]

\* _update_service_name_from_checkpoint: the name generated from the selection
service_name_of_selection(value) ==
    IF value \in DOMAIN generated_service_name THEN generated_service_name[value]
    ELSE sanitize_kubernetes_name(value)

\* update_checkpoints_dropdown() for a given set of detected checkpoints: the
\* new options, value and service name.  Assigning options that differ selects
\* the first option (ipywidgets); equal options leave the selection; with
\* checkpoints the service name is regenerated from the selection.
dropdown_after_update(detected) ==
    LET checkpoints == find_checkpoints_of(detected)
        value == IF checkpoints = checkpoints_options THEN checkpoints_value
                 ELSE IF checkpoints = <<>> THEN None ELSE checkpoints[1]
    IN  [options |-> checkpoints,
         value   |-> value,
         name    |-> IF value = None
                       THEN (IF checkpoints_value = None THEN inference_service_name
                             ELSE W_my_inference_service)
                       ELSE service_name_of_selection(value)]

\* a registry during a scan or a poll cycle
\* (refresh: the dropdown is to be updated)
Registry(detected, times, printed, refresh) ==
    [detected |-> detected, times |-> times, printed |-> printed, refresh |-> refresh]

Report(by, path, new) == [by |-> by, path |-> path, new |-> new]

\* a variant of the scanner's test that takes every match for a new path
scan_record_always_new(reg, checkpoint_path, timestamp) ==
    Registry(reg.detected \cup {checkpoint_path},
             [k \in DOMAIN reg.times \cup {checkpoint_path} |->
                 IF k = checkpoint_path THEN timestamp ELSE reg.times[k]],
             Append(reg.printed, Report("scan", checkpoint_path, TRUE)), TRUE)

\* the scanner's "add to detected checkpoints if new": tests detected_checkpoints
scan_record(reg, checkpoint_path, timestamp) ==
    IF checkpoint_path \notin reg.detected
    THEN Registry(reg.detected \cup {checkpoint_path},
                  [k \in DOMAIN reg.times \cup {checkpoint_path} |->
                      IF k = checkpoint_path THEN timestamp ELSE reg.times[k]],
                  Append(reg.printed, Report("scan", checkpoint_path, TRUE)), TRUE)
    ELSE Registry(reg.detected, reg.times,
                  Append(reg.printed, Report("scan", checkpoint_path, FALSE)), TRUE)

\* the monitor's "avoid duplicate notifications": tests last_checkpoint_time
monitor_record(reg, checkpoint_path, timestamp) ==
    IF checkpoint_path \notin DOMAIN reg.times
    THEN Registry(reg.detected \cup {checkpoint_path},
                  [k \in DOMAIN reg.times \cup {checkpoint_path} |->
                      IF k = checkpoint_path THEN timestamp ELSE reg.times[k]],
                  Append(reg.printed, Report("monitor", checkpoint_path, TRUE)), TRUE)
    ELSE Registry(reg.detected, reg.times,
                  Append(reg.printed, Report("monitor", checkpoint_path, FALSE)), reg.refresh)

\* "for line in logs.split('\n')" of the scanner
RECURSIVE scan_lines(_, _, _)
scan_lines(reg, lines, timestamp) ==
    IF lines = <<>> THEN reg
    ELSE LET checkpoint_path == checkpoint_of[lines[1]]
         IN  scan_lines(IF checkpoint_path # None
                          THEN scan_record(reg, checkpoint_path, timestamp) ELSE reg,
                        Tail(lines), timestamp)

\* "for line in logs.split('\n')" of the monitor
RECURSIVE monitor_lines(_, _, _)
monitor_lines(reg, lines, timestamp) ==
    IF lines = <<>> THEN reg
    ELSE LET checkpoint_path == checkpoint_of[lines[1]]
         IN  monitor_lines(IF checkpoint_path # None
                             THEN monitor_record(reg, checkpoint_path, timestamp) ELSE reg,
                           Tail(lines), timestamp)

(***************************************************************************)
(* Pod discovery                                                           *)
(***************************************************************************)

\* possible_selectors for a job, as (label, value) pairs in the declared order
possible_selectors(job_name) ==
    <<<<"job-name", job_name>>, <<"pytorch-job-name", job_name>>,
      <<"training.kubeflow.org/job-name", job_name>>, <<"pytorch.org/job-name", job_name>>,
      <<"app.kubernetes.io/name", job_name>>>>

\* the positions in pods of list_namespaced_pod(label_selector = selector)
RECURSIVE positions_where(_, _)
positions_where(test(_), i) ==
    IF i > Len(pods) THEN <<>>
    ELSE (IF test(pods[i]) THEN <<i>> ELSE <<>>) \o positions_where(test, i + 1)

pods_labelled(selector) ==
    LET has(pod) == selector \in pod.labels IN positions_where(has, 1)

\* the pods of every selector, one selector after the other
RECURSIVE all_selector_pods(_)
all_selector_pods(selectors) ==
    IF selectors = <<>> THEN <<>>
    ELSE pods_labelled(selectors[1]) \o all_selector_pods(Tail(selectors))

\* the pods of the first selector that yields any
RECURSIVE first_selector_pods(_)
first_selector_pods(selectors) ==
    IF selectors = <<>> THEN <<>>
    ELSE IF pods_labelled(selectors[1]) # <<>> THEN pods_labelled(selectors[1])
    ELSE first_selector_pods(Tail(selectors))

\* the pods whose name contains the job name
pods_named(job_name) ==
    LET has(pod) == Find(pod.name, job_name) # 0 IN positions_where(has, 1)

\* pods_found of _scan_job_for_checkpoints
scan_pods_found(job_name) ==
    LET by_label == first_selector_pods(possible_selectors(job_name))
    IN  IF by_label # <<>> THEN by_label ELSE pods_named(job_name)

\* all_pods of one poll cycle of _monitor_logs_worker
monitor_all_pods(job_name) ==
    LET by_label == first_selector_pods(possible_selectors(job_name))
    IN  IF by_label = <<>> /\ ~monitor_pods_found THEN pods_named(job_name) ELSE by_label


(***************************************************************************)
(* LogScanner                                                              *)
(***************************************************************************)

\* a scan that the first failing log read ends
RECURSIVE scan_pods_aborting(_, _, _, _)
scan_pods_aborting(reg, positions, unread, timestamp) ==
    IF positions = <<>> \/ positions[1] \in unread THEN reg
    ELSE scan_pods_aborting(scan_lines(reg, pod_logs[positions[1]], timestamp),
                            Tail(positions), unread, timestamp)

\* "for pod in pods_found" of the scanner; the pods in unread fail their log read
RECURSIVE scan_pods(_, _, _, _)
scan_pods(reg, positions, unread, timestamp) ==
    IF positions = <<>> THEN reg
    ELSE scan_pods(IF positions[1] \in unread THEN reg
                   ELSE scan_lines(reg, pod_logs[positions[1]], timestamp),
                   Tail(positions), unread, timestamp)

\* a scan that reads nothing
scan_result_skipped(job_name, list_fails, unread) ==
    Registry(detected_checkpoints, last_checkpoint_time, <<>>, FALSE)

\* the registry after _scan_job_for_checkpoints(job_name); list_fails: a pod
\* listing raises; unread: the pods whose log read raises
scan_result(job_name, list_fails, unread) ==
    LET start == Registry(detected_checkpoints, last_checkpoint_time, <<>>, FALSE)
    IN  IF ~kube_token \/ list_fails THEN start
        ELSE scan_pods(start, scan_pods_found(job_name), unread, clock)

\* the effect of a registry pass on the session: the registry, what was
\* printed, and update_checkpoints_dropdown() when the pass asks for it
commit_registry(reg) ==
    /\ detected_checkpoints' = reg.detected
    /\ last_checkpoint_time' = reg.times
    /\ reports' = reg.printed
    /\ IF reg.refresh
       THEN LET d == dropdown_after_update(reg.detected)
            IN  /\ checkpoints_options' = d.options
                /\ checkpoints_value' = d.value
                /\ inference_service_name' = d.name
       ELSE UNCHANGED checkpoint_widget_vars

\* _scan_job_for_checkpoints(job_name)
scan_job_for_checkpoints(job_name, list_fails, unread) ==
    commit_registry(scan_result(job_name, list_fails, unread))

PodPositions == 1..Len(pods)

\* _scan_checkpoints_button_click: a click on "Scan for Checkpoint Folders"
ScanCheckpointsButtonClick(list_fails, unread) ==
    /\ IF pytorchjob_value = None
       THEN UNCHANGED <<registry_vars, checkpoint_widget_vars, reports>>
       ELSE scan_job_for_checkpoints(pytorchjob_value, list_fails, unread)
    /\ UNCHANGED <<cluster_vars, destroyed, thread_vars, watch_vars, clock, kube_token, pod_logs, pytorchjob_value,
                   services, service_widget_vars, monitor_vars, deploy_result, call>>

(***************************************************************************)
(* LogMonitor                                                              *)
(***************************************************************************)

\* the last n lines of a log: what a read with since_seconds returns
LastLines(log, n) == SubSeq(log, Len(log) - n + 1, Len(log))

\* "for pod in all_pods" of one poll cycle; window[i] lines of pod i are recent
RECURSIVE monitor_pods(_, _, _, _, _)
monitor_pods(reg, positions, unread, window, timestamp) ==
    IF positions = <<>> THEN reg
    ELSE monitor_pods(IF positions[1] \in unread THEN reg
                      ELSE monitor_lines(reg, LastLines(pod_logs[positions[1]],
                                                        window[positions[1]]), timestamp),
                      Tail(positions), unread, window, timestamp)

Windows == {w \in [PodPositions -> 0..MaxLogLines] : \A i \in PodPositions : w[i] <= Len(pod_logs[i])}

\* no thread is ever taken for alive
never_alive(thread_alive) == FALSE

\* "self.log_monitor_thread and self.log_monitor_thread.is_alive()", and the
\* same test of self.service_watch_thread
is_alive(thread_alive) == thread_alive

\* _start_log_monitoring, run by the checkbox changing to True
StartLogMonitoring(list_fails, unread) ==
    /\ ~monitor_logs_checkbox
    /\ IF is_alive(log_monitor_alive)
       THEN \* already monitoring
            /\ monitor_logs_checkbox' = TRUE
            /\ UNCHANGED <<stop_monitoring, log_monitor_alive, monitor_workers,
                           monitor_pods_found, log_status,
                           registry_vars, checkpoint_widget_vars, reports>>
       ELSE IF pytorchjob_value = None
       THEN \* the checkbox is set back, which runs _stop_log_monitoring
            /\ monitor_logs_checkbox' = FALSE
            /\ stop_monitoring' = TRUE
            /\ log_status' = "Inactive"
            /\ UNCHANGED <<log_monitor_alive, monitor_workers, monitor_pods_found,
                           registry_vars, checkpoint_widget_vars, reports>>
       ELSE /\ scan_job_for_checkpoints(pytorchjob_value, list_fails, unread)
            /\ monitor_logs_checkbox' = TRUE
            /\ stop_monitoring' = FALSE
            /\ log_monitor_alive' = TRUE
            /\ monitor_workers' = monitor_workers + 1
            /\ monitor_pods_found' = FALSE
            /\ log_status' = "Active"
    /\ UNCHANGED <<cluster_vars, destroyed, thread_vars, watch_vars, clock, kube_token, pod_logs, pytorchjob_value,
                   services, service_widget_vars, deploy_result, call>>

\* a stop of the log monitor that stops the watcher as well
StopLogMonitoringAndWatching ==
    /\ monitor_logs_checkbox
    /\ monitor_logs_checkbox' = FALSE
    /\ stop_monitoring' = TRUE
    /\ log_status' = "Inactive"
    /\ stop_service_watching' = TRUE
    /\ UNCHANGED <<cluster_vars, destroyed, thread_vars, watch_service_checkbox,
                   service_watch_alive, watch_status, watch_thread, watch_poll,
                   watch_workers, clock, kube_token, pod_logs, pytorchjob_value,
                   registry_vars, checkpoint_widget_vars, services, service_widget_vars,
                   log_monitor_alive, monitor_workers, monitor_pods_found, reports,
                   deploy_result, call>>

\* _stop_log_monitoring, run by the checkbox changing to False
StopLogMonitoring ==
    /\ monitor_logs_checkbox
    /\ monitor_logs_checkbox' = FALSE
    /\ stop_monitoring' = TRUE
    /\ log_status' = "Inactive"
    /\ UNCHANGED <<cluster_vars, destroyed, thread_vars, watch_vars, clock, kube_token, pod_logs, pytorchjob_value,
                   registry_vars, checkpoint_widget_vars, services, service_widget_vars,
                   log_monitor_alive, monitor_workers, monitor_pods_found, reports,
                   deploy_result, call>>

\* one pass of "while not self.stop_monitoring" in _monitor_logs_worker
MonitorLogsCycle(list_fails, unread, window) ==
    /\ log_monitor_alive
    /\ ~stop_monitoring
    /\ IF list_fails
       THEN UNCHANGED <<registry_vars, checkpoint_widget_vars, monitor_pods_found>>
            /\ reports' = <<>>
       ELSE /\ commit_registry(monitor_pods(
                  Registry(detected_checkpoints, last_checkpoint_time, <<>>, FALSE),
                  monitor_all_pods(W_train_1), unread, window, clock))
            /\ monitor_pods_found' = TRUE
    /\ UNCHANGED <<cluster_vars, destroyed, thread_vars, watch_vars, clock, kube_token, pod_logs, pytorchjob_value,
                   services, service_widget_vars, monitor_logs_checkbox, stop_monitoring,
                   log_monitor_alive, monitor_workers, log_status, deploy_result, call>>

\* a log monitor that leaves with the status Error whatever the flag
log_status_error_always(flag, status) == "Error"

\* the finally clause of _monitor_logs_worker: the status is Error unless a
\* stop was requested
log_status_when_leaving(flag, status) == IF ~flag THEN "Error" ELSE status

\* the worker finds stop_monitoring set at the top of its loop and returns,
\* through the finally clause
MonitorLogsExit ==
    /\ log_monitor_alive
    /\ stop_monitoring
    /\ log_monitor_alive' = FALSE
    /\ monitor_workers' = monitor_workers - 1
    /\ log_status' = log_status_when_leaving(stop_monitoring, log_status)
    /\ UNCHANGED <<cluster_vars, destroyed, thread_vars, watch_vars, clock, kube_token, pod_logs, pytorchjob_value,
                   registry_vars, checkpoint_widget_vars, services, service_widget_vars,
                   monitor_logs_checkbox, stop_monitoring, monitor_pods_found,
                   reports, deploy_result, call>>


(***************************************************************************)
(* ServiceReconciler                                                       *)
(***************************************************************************)

\* " (" : what separates a name from its status in a dropdown entry
W_open_paren == <<" ", "(">>

\* the status shown for a service that reports no Ready condition
W_unknown_suffix == <<" ","(","U","n","k","n","o","w","n",")">>

\* the inference_service body of _create_inference_service
inference_service(service_name, storage_uri) ==
    [apiVersion |-> "serving.kserve.io/v1beta1",
     kind       |-> "InferenceService",
     metadata   |-> [name |-> service_name,
                     annotations |->
                        [k \in {"serving.knative.openshift.io/enablePassthrough",
                                "serving.kserve.io/deploymentMode",
                                "serving.kserve.io/stop",
                                "sidecar.istio.io/inject",
                                "sidecar.istio.io/rewriteAppHTTPProbers"} |->
                            CASE k = "serving.kserve.io/deploymentMode" -> "Serverless"
                              [] k = "serving.kserve.io/stop" -> "false"
                              [] OTHER -> "true"]],
     spec       |-> [predictor |->
                        [automountServiceAccountToken |-> FALSE,
                         maxReplicas |-> 1,
                         minReplicas |-> 1,
                         model |-> [modelFormat |-> [name |-> "vLLM"],
                                    name |-> "",
                                    resources |->
                                        [limits   |-> [cpu |-> "10", memory |-> "20Gi", gpu |-> "1"],
                                         requests |-> [cpu |-> "6", memory |-> "16Gi", gpu |-> "1"]],
                                    runtime |-> "example",
                                    storageUri |-> storage_uri]]]]

\* the names of the services on the cluster
service_names == [i \in 1..Len(services) |-> services[i].metadata.name]

W_ready_suffix == <<" ","(","R","e","a","d","y",")">>

W_not_ready_suffix == <<" ","(","N","o","t"," ","R","e","a","d","y",")">>

\* service.get('status', {}) with its conditions and url read with defaults
NoStatus == [conditions |-> <<>>, url |-> ""]

status_of(service) == IF "status" \in DOMAIN service THEN service.status ELSE NoStatus

\* the first condition of type Ready ("for condition in conditions: ... break")
\* as a list of one condition, or the empty list
ready_condition(conditions) ==
    LET hits == {i \in 1..Len(conditions) : conditions[i].type = "Ready"}
    IN  IF hits = {} THEN <<>>
        ELSE <<conditions[CHOOSE i \in hits : \A j \in hits : i <= j]>>

\* the status of the service of that name on the cluster; a service that is
\* not there yet has none
status_named(name) ==
    LET hits == {i \in 1..Len(services) : services[i].metadata.name = name}
    IN  IF hits = {} THEN NoStatus
        ELSE status_of(services[CHOOSE i \in hits : \A j \in hits : i <= j])

\* service_display_name of a listed service: f"{service_name} ({ready_status})"
service_display_name(name) ==
    LET ready == ready_condition(status_named(name).conditions)
    IN  name \o (IF ready # <<>> /\ ready[1].status = "True" THEN W_ready_suffix
                 ELSE IF ready # <<>> /\ ready[1].status = "False" THEN W_not_ready_suffix
                 ELSE W_unknown_suffix)

\* selection.split(' (')[0]
name_of_selection(selection) ==
    LET i == Find(selection, W_open_paren)
    IN  IF i = 0 THEN selection ELSE SubSeq(selection, 1, i - 1)

\* the first element of xs that satisfies test, or None
RECURSIVE first_where(_, _)
first_where(test(_), xs) ==
    IF xs = <<>> THEN None
    ELSE IF test(xs[1]) THEN xs[1] ELSE first_where(test, Tail(xs))

Range(xs) == {xs[i] : i \in 1..Len(xs)}

\* _update_inferenceservice_dropdown(preserve_selection) on a cluster holding
\* the services named names: the new options and value.  list_fails: the
\* listing raises.  Assigning options that differ selects the first option.
services_dropdown_after(names, preserve_selection, list_fails) ==
    LET current_selection == IF preserve_selection THEN inferenceservice_value ELSE None
        current_service_name ==
            IF current_selection = None THEN None ELSE name_of_selection(current_selection)
        options == IF ~kube_token \/ list_fails THEN <<>>
                   ELSE [i \in 1..Len(names) |-> service_display_name(names[i])]
        assigned == IF options = inferenceservice_options THEN inferenceservice_value
                    ELSE IF options = <<>> THEN None ELSE options[1]
        found == current_service_name # None /\ current_service_name \in Range(names)
    IN  [options |-> options,
         value   |-> IF ~kube_token \/ list_fails THEN assigned
                     ELSE IF found THEN service_display_name(current_service_name)
                     ELSE IF current_selection # None /\ options # <<>> THEN options[1]
                     ELSE assigned]

\* a variant in which the cluster replaces a service whose name exists
create_or_replace(cluster_services, body, rejected) ==
    IF rejected THEN [raised |-> TRUE, services |-> cluster_services]
    ELSE IF \E i \in 1..Len(cluster_services) :
                cluster_services[i].metadata.name = body.metadata.name
    THEN [raised |-> FALSE,
          services |-> [i \in 1..Len(cluster_services) |->
                           IF cluster_services[i].metadata.name = body.metadata.name
                           THEN body ELSE cluster_services[i]]]
    ELSE [raised |-> FALSE, services |-> Append(cluster_services, body)]

\* api.create_namespaced_custom_object(body=inference_service) on a cluster
\* holding cluster_services: the cluster refuses a name that exists (conflict)
\* and the call raises; rejected: it raises for another reason
create_namespaced_custom_object(cluster_services, body, rejected) ==
    IF rejected \/ \E i \in 1..Len(cluster_services) :
                       cluster_services[i].metadata.name = body.metadata.name
    THEN [raised |-> TRUE, services |-> cluster_services]
    ELSE [raised |-> FALSE, services |-> Append(cluster_services, body)]

\* what can go wrong in one deployment: the read of the PyTorchJob raises in
\* _get_pytorchjob_pvc_name or in _get_pvc_mount_path_from_job, the create
\* call raises for another reason than a conflict, the listing after it raises
CreateFaults == {"none", "get_pvc", "get_mount", "create", "list"}

\* _create_inference_service: a click on "Create InferenceService" (enabled
\* once checkpoints are listed)
CreateInferenceService(fault) ==
    /\ checkpoints_options # <<>>
    /\ LET checkpoint_path == checkpoints_value
           service_name == inference_service_name
           result(outcome, requests) == [outcome |-> outcome, requests |-> requests]
           pvc_name == IF fault = "get_pvc" THEN None ELSE pvc_name_of(pytorchjob)
           relative_path ==
               relative_path_for(checkpoint_path,
                   IF fault = "get_mount" THEN None ELSE pvc_mount_path_of(pytorchjob))
           failed(outcome, requests) ==
               /\ deploy_result' = result(outcome, requests)
               /\ UNCHANGED <<services, service_widget_vars>>
       IN  IF ~kube_token \/ checkpoint_path = None \/ service_name = <<>>
           THEN failed("fields_missing", <<>>)
           ELSE IF pytorchjob_value = None THEN failed("no_job", <<>>)
           ELSE IF pvc_name = None THEN failed("no_pvc", <<>>)
           ELSE IF relative_path = None THEN failed("no_relative_path", <<>>)
           ELSE LET body == inference_service(service_name,
                                              storage_uri_of(pvc_name, relative_path))
                    created == create_namespaced_custom_object(services, body,
                                                               fault = "create")
                IN  IF created.raised
                    THEN /\ services' = created.services
                         /\ deploy_result' = result("api_error", <<body>>)
                         /\ UNCHANGED service_widget_vars
                    ELSE /\ Len(created.services) <= MaxServices
                         /\ services' = created.services
                         /\ deploy_result' = result("created", <<body>>)
                         /\ LET names == [i \in 1..Len(created.services) |->
                                             created.services[i].metadata.name]
                                d == services_dropdown_after(names, TRUE, fault = "list")
                                is_created(option) ==
                                    StartsWith(option, service_name \o W_open_paren)
                                auto == first_where(is_created, d.options)
                            IN  /\ inferenceservice_options' = d.options
                                /\ inferenceservice_value' =
                                       IF auto # None THEN auto ELSE d.value
    /\ UNCHANGED <<cluster_vars, destroyed, thread_vars, watch_vars, clock, kube_token, pod_logs, pytorchjob_value,
                   registry_vars, checkpoint_widget_vars, monitor_vars, reports, call>>

(***************************************************************************)
(* The user and the training job                                           *)
(***************************************************************************)

\* the token is entered: _on_credentials_change refreshes both listings
\* (jobs_fail, list_fails: the listing raises)
EnterCredentials(jobs_fail, list_fails) ==
    /\ ~kube_token
    /\ kube_token' = TRUE
    /\ pytorchjob_value' = IF jobs_fail THEN None ELSE W_train_1
    /\ LET options == IF list_fails THEN <<>>
                      ELSE [i \in 1..Len(services) |-> service_display_name(service_names[i])]
       IN  /\ inferenceservice_options' = options
           /\ inferenceservice_value' =
                  IF options = inferenceservice_options THEN inferenceservice_value
                  ELSE IF options = <<>> THEN None ELSE options[1]
    /\ UNCHANGED <<cluster_vars, destroyed, thread_vars, watch_vars, clock, pod_logs, registry_vars,
                   checkpoint_widget_vars, services, monitor_vars, reports, deploy_result,
                   call>>

\* _refresh_jobs_button_click: _update_pytorchjob_dropdown()
RefreshJobsButtonClick(jobs_fail) ==
    /\ kube_token
    /\ pytorchjob_value' = IF jobs_fail THEN None ELSE W_train_1
    /\ UNCHANGED <<cluster_vars, destroyed, thread_vars, watch_vars, clock, kube_token, pod_logs, registry_vars,
                   checkpoint_widget_vars, services, service_widget_vars, monitor_vars,
                   reports, deploy_result, call>>

\* the user picks another entry of the checkpoint dropdown:
\* _update_service_name_from_checkpoint
SelectCheckpoint(option) ==
    /\ option \in Range(checkpoints_options)
    /\ option # checkpoints_value
    /\ checkpoints_value' = option
    /\ inference_service_name' = sanitize_kubernetes_name(option)
    /\ UNCHANGED <<cluster_vars, destroyed, thread_vars, watch_vars, clock, kube_token, pod_logs, pytorchjob_value,
                   registry_vars, checkpoints_options, services, service_widget_vars,
                   monitor_vars, reports, deploy_result, call>>

\* what the user may type into the service name field
ServiceNameInputs == {<<>>, W_my_svc}

TypeServiceName(name) ==
    /\ name # inference_service_name
    /\ inference_service_name' = name
    /\ UNCHANGED <<cluster_vars, destroyed, thread_vars, watch_vars, clock, kube_token, pod_logs, pytorchjob_value,
                   registry_vars, checkpoints_options, checkpoints_value, services,
                   service_widget_vars, monitor_vars, reports, deploy_result, call>>

RECURSIVE TotalLen(_)
TotalLen(logs) == IF logs = <<>> THEN 0 ELSE Len(logs[1]) + TotalLen(Tail(logs))

\* the training writes a line to the log of a pod
WriteLogLine(i, line) ==
    /\ TotalLen(pod_logs) < MaxLogLines
    /\ pod_logs' = [pod_logs EXCEPT ![i] = Append(@, line)]
    /\ UNCHANGED <<cluster_vars, destroyed, thread_vars, watch_vars, clock, kube_token, pytorchjob_value,
                   registry_vars, checkpoint_widget_vars, services, service_widget_vars,
                   monitor_vars, reports, deploy_result, call>>

\* time passes
ClockTick ==
    /\ clock < MaxTime
    /\ clock' = clock + 1
    /\ UNCHANGED <<cluster_vars, destroyed, thread_vars, watch_vars, kube_token, pod_logs, pytorchjob_value, registry_vars,
                   checkpoint_widget_vars, services, service_widget_vars, monitor_vars,
                   reports, deploy_result, call>>

(***************************************************************************)
(* The path functions on their own                                         *)
(***************************************************************************)

\* the longest generated path
MaxPathLen == 3

\* the characters generated paths are made of
PathAlphabet == {"/", "a", "2"}

GeneratedPaths == UNION {[1..n -> PathAlphabet] : n \in 0..MaxPathLen}

P_opt_data == <<"/","o","p","t","/","d","a","t","a">>

P_opt_data_ckpt_100 == <<"/","o","p","t","/","d","a","t","a","/","c","k","p","t","-","1","0","0">>

P_other_ckpt_100 == <<"/","o","t","h","e","r","/","c","k","p","t","-","1","0","0">>

P_opt_data2_x == <<"/","o","p","t","/","d","a","t","a","2","/","x">>

\* the checkpoint paths and the mount paths _extract_relative_path_for_pvc is
\* applied to (None: no mount path was found)
CheckpointPathInputs ==
    GeneratedPaths \cup {P_opt_data, P_opt_data_ckpt_100, P_other_ckpt_100, P_opt_data2_x}

MountPathInputs == GeneratedPaths \cup {P_opt_data, None}

\* the path_mappings _map_checkpoint_path is applied under: the tables of the
\* sessions and every table of at most two entries over short prefixes
PrefixInputs == {<<>>, <<"/">>, <<"a">>, <<"/","a">>}

DeploymentPrefixInputs == {<<"2">>, <<"/","a">>}

MappingEntries == PrefixInputs \X DeploymentPrefixInputs

MappingInputs ==
    {T_none, T_train, T_collide}
    \cup {<<e>> : e \in MappingEntries}
    \cup {<<ef[1], ef[2]>> : ef \in {gh \in MappingEntries \X MappingEntries :
                                        gh[1][1] # gh[2][1]}}

TrainingPathInputs == GeneratedPaths \cup {P_train_ckpt_5, P_other_ckpt_5}

\* a session in which one of the path functions is about to be called
InitPaths ==
    /\ SessionInit({Scenario(J_std, m, Pods_master, <<<<>>>>, {}) : m \in MappingInputs})
    /\ \/ /\ path_mapping = T_none
          /\ \E checkpoint_path \in CheckpointPathInputs, pvc_mount_path \in MountPathInputs :
                 call = Call("_extract_relative_path_for_pvc",
                             <<checkpoint_path, pvc_mount_path>>, Pending)
       \/ \E training_path \in TrainingPathInputs :
              call = Call("_map_checkpoint_path", <<training_path>>, Pending)

\* _extract_relative_path_for_pvc returns
ExtractRelativePathForPvc ==
    /\ call.fn = "_extract_relative_path_for_pvc"
    /\ call.result = Pending
    /\ call' = [call EXCEPT !.result = relative_path_for(call.args[1], call.args[2])]
    /\ UNCHANGED <<cluster_vars, destroyed, thread_vars, watch_vars, clock, kube_token, pod_logs, pytorchjob_value,
                   registry_vars, checkpoint_widget_vars, services, service_widget_vars,
                   monitor_vars, reports, deploy_result>>

\* _map_checkpoint_path returns
MapCheckpointPath ==
    /\ call.fn = "_map_checkpoint_path"
    /\ call.result = Pending
    /\ call' = [call EXCEPT !.result = map_checkpoint_path(call.args[1])]
    /\ UNCHANGED <<cluster_vars, destroyed, thread_vars, watch_vars, clock, kube_token, pod_logs, pytorchjob_value,
                   registry_vars, checkpoint_widget_vars, services, service_widget_vars,
                   monitor_vars, reports, deploy_result>>

NextPaths == ExtractRelativePathForPvc \/ MapCheckpointPath

\* the operations of the deployment side
NextDeploy ==
    \/ \E jobs_fail, list_fails \in BOOLEAN : EnterCredentials(jobs_fail, list_fails)
    \/ \E jobs_fail \in BOOLEAN : RefreshJobsButtonClick(jobs_fail)
    \/ \E list_fails \in BOOLEAN, unread \in SUBSET PodPositions :
           ScanCheckpointsButtonClick(list_fails, unread)
    \/ \E option \in Range(checkpoints_options) : SelectCheckpoint(option)
    \/ \E name \in ServiceNameInputs : TypeServiceName(name)
    \/ \E fault \in CreateFaults : CreateInferenceService(fault)

\* the operations of the discovery side
NextRegistry ==
    \/ \E jobs_fail, list_fails \in BOOLEAN : EnterCredentials(jobs_fail, list_fails)
    \/ \E i \in PodPositions, line \in training_lines : WriteLogLine(i, line)
    \/ ClockTick
    \/ \E list_fails \in BOOLEAN, unread \in SUBSET PodPositions :
           ScanCheckpointsButtonClick(list_fails, unread)
    \/ \E list_fails \in BOOLEAN, unread \in SUBSET PodPositions :
           StartLogMonitoring(list_fails, unread)
    \/ StopLogMonitoring
    \/ \E list_fails \in BOOLEAN, unread \in SUBSET PodPositions, window \in Windows :
           MonitorLogsCycle(list_fails, unread, window)
    \/ MonitorLogsExit

Next == NextDeploy \/ NextRegistry

\* a whole session on the end-to-end scenario
Spec == Init /\ [][Next]_vars

\* deployments against every job
SpecDeploy == InitOf(DeployScenarios) /\ [][NextDeploy]_vars

\* discovery under path_mappings and sets of pods
SpecRegistry == InitOf(RegistryScenarios) /\ [][NextRegistry]_vars

\* the path functions on bounded inputs
SpecPaths == InitPaths /\ [][NextPaths]_vars

(***************************************************************************)
(* Deployment: what the claims speak of                                    *)
(***************************************************************************)

\* a click on "Create InferenceService", whatever goes wrong in it
DeployStep == \E fault \in CreateFaults : CreateInferenceService(fault)

\* the replica specs of the job of the session
JobReplicaSpecs ==
    {pytorchjob.pytorchReplicaSpecs[i] : i \in 1..Len(pytorchjob.pytorchReplicaSpecs)}
    \cup {pytorchjob.replicaSpecs[i] : i \in 1..Len(pytorchjob.replicaSpecs)}

\* the volumes of a replica spec that reference a claim
ClaimVolumes(rs) == {v \in Range(rs.volumes) : v.claimName # None}

\* the volume mounts of the containers of a replica spec
ContainerMounts(rs) == UNION {Range(rs.containers[i]) : i \in 1..Len(rs.containers)}

\* the pairings of the job: a claim and the path at which a container mounts
\* the volume that references it
Pairings ==
    UNION {{<<vm[1].claimName, vm[2].mountPath>> :
               vm \in {wn \in ClaimVolumes(rs) \X ContainerMounts(rs) :
                           wn[2].name = wn[1].name}} :
           rs \in JobReplicaSpecs}

\* the job has a PVC-backed volume
HasPvcVolume == \E rs \in JobReplicaSpecs : ClaimVolumes(rs) # {}

\* the paths at which containers mount PVC-backed volumes
PvcMountPaths == {pair[2] : pair \in Pairings}

\* path is mount followed by a separator and a non-empty remainder
Under(path, mount) ==
    /\ Len(path) > Len(mount) + 1
    /\ SubSeq(path, 1, Len(mount)) = mount
    /\ path[Len(mount) + 1] = "/"

\* the storage URI of a submitted body
UriOf(body) == body.spec.predictor.model.storageUri

\* C1: with no rewrite table, job train-1 selected, the pod's log holding
\* "Saving model checkpoint to /opt/model-dir/checkpoint-200" and the job's one
\* pairing being PVC models-pvc mounted at /opt/model-dir, a scan that reads the
\* log leaves /opt/model-dir/checkpoint-200 in the registry, and a deployment
\* of that entry in which nothing raises submits one create whose storage URI
\* is pvc://models-pvc/checkpoint-200.
C1_EndToEnd ==
    [][/\ path_mapping = T_none
       /\ pytorchjob_value = W_train_1
       /\ Pairings = {<<W_models_pvc, P_model_dir>>}
       => /\ (ScanCheckpointsButtonClick(FALSE, {})
              /\ L_checkpoint_200 \in Range(pod_logs[1])
              => P_checkpoint_200 \in detected_checkpoints')
          /\ (CreateInferenceService("none")
              /\ checkpoints_value = P_checkpoint_200
              /\ inference_service_name # <<>>
              => /\ Len(deploy_result'.requests) = 1
                 /\ UriOf(deploy_result'.requests[1]) = U_models_checkpoint_200)]_vars

\* the scanned entry was deployed to pvc://models-pvc/checkpoint-200
C1_Witness ==
    /\ path_mapping = T_none
    /\ Pairings = {<<W_models_pvc, P_model_dir>>}
    /\ P_checkpoint_200 \in detected_checkpoints
    /\ deploy_result.outcome = "created"
    /\ UriOf(deploy_result.requests[1]) = U_models_checkpoint_200
    /\ services = deploy_result.requests

\* C2: a deployment submits a create only when the job has a PVC-backed volume
\* and the selected path is a mount path of such a volume followed by a
\* non-empty remainder; when the job has no PVC-backed volume, when no
\* container mounts a PVC-backed volume, when the path starts with no such
\* mount path or when what follows the mount path is empty, the deployment
\* fails, submits nothing and leaves the services of the cluster as they were.
C2_CreateOnlyAfterResolution ==
    [][DeployStep =>
          LET path == checkpoints_value
              unresolved ==
                  \/ ~HasPvcVolume
                  \/ PvcMountPaths = {}
                  \/ \A m \in PvcMountPaths : ~StartsWith(path, m)
                  \/ \E m \in PvcMountPaths : path \in {m, m \o <<"/">>}
          IN  /\ deploy_result'.requests # <<>>
                 => /\ HasPvcVolume
                    /\ \E m \in PvcMountPaths :
                           StartsWith(path, m) /\ path \notin {m, m \o <<"/">>}
              /\ unresolved
                 => /\ deploy_result'.outcome \in {"fields_missing", "no_job", "no_pvc",
                                                   "no_relative_path"}
                    /\ deploy_result'.requests = <<>>
                    /\ services' = services]_vars

\* a deployment failed because no container mounts the job's PVC-backed volume
C2_Witness ==
    /\ HasPvcVolume
    /\ PvcMountPaths = {}
    /\ checkpoints_value = P_checkpoint_200
    /\ deploy_result.outcome = "no_relative_path"
    /\ deploy_result.requests = <<>>
    /\ services = <<>>

\* C3: the claim name and the mount path a deployment uses come from one
\* pairing of the job: the submitted storage URI names a claim whose volume a
\* container mounts at a path the selected checkpoint path starts with.
C3_OnePairing ==
    [][DeployStep /\ deploy_result'.requests # <<>>
       => \E pair \in Pairings :
              /\ StartsWith(checkpoints_value, pair[2])
              /\ StartsWith(UriOf(deploy_result'.requests[1]),
                            <<"p","v","c",":","/","/">> \o pair[1] \o <<"/">>)]_vars

\* a body with its name and its storage URI blanked
Blanked(body) ==
    [body EXCEPT !.metadata.name = <<>>, !.spec.predictor.model.storageUri = <<>>]

\* C4: the body a successful deployment submits is the service now on the
\* cluster; its metadata.name is the requested service name, its storageUri is
\* "pvc://" + pvcName + "/" + relativePath, and everything else in it
\* (annotations, model format, runtime, resources) is the same for every input.
C4_SubmittedBody ==
    [][DeployStep /\ deploy_result'.outcome = "created"
       => LET body == deploy_result'.requests[1]
              pvcName == pvc_name_of(pytorchjob)
              relativePath == relative_path_for(checkpoints_value,
                                                pvc_mount_path_of(pytorchjob))
          IN  /\ Len(deploy_result'.requests) = 1
              /\ services' = Append(services, body)
              /\ body.metadata.name = inference_service_name
              /\ UriOf(body) = <<"p","v","c",":","/","/">> \o pvcName \o <<"/">> \o relativePath
              /\ Blanked(body) = Blanked(inference_service(W_my_svc, U_shared))
              /\ body.metadata.annotations["serving.kserve.io/deploymentMode"] = "Serverless"
              /\ body.spec.predictor.model.modelFormat.name = "vLLM"
              /\ body.spec.predictor.model.runtime = "example"
              /\ body.spec.predictor.model.resources.limits.memory = "20Gi"
              /\ body.spec.predictor.model.resources.requests.memory = "16Gi"]_vars

\* a service named by the user was created from a path beside the first one
C4_Witness ==
    /\ deploy_result.outcome = "created"
    /\ services = deploy_result.requests
    /\ services[1].metadata.name = W_my_svc
    /\ UriOf(services[1]) = storage_uri_of(W_models_pvc, <<"2", "/", "x">>)

\* C5: a deployment whose service name exists on the cluster fails and leaves
\* the services of the cluster as they were, and every deployment issues at
\* most one create call.
C5_NoUpdatePath ==
    [][DeployStep
       => /\ Len(deploy_result'.requests) <= 1
          /\ (\E i \in 1..Len(services) : services[i].metadata.name = inference_service_name)
             => /\ deploy_result'.outcome \notin {"created", "none"}
                /\ services' = services]_vars

\* a create of an existing name with another storage URI was refused
C5_Witness ==
    /\ deploy_result.outcome = "api_error"
    /\ Len(deploy_result.requests) = 1
    /\ \E i \in 1..Len(services) :
          /\ services[i].metadata.name = deploy_result.requests[1].metadata.name
          /\ UriOf(services[i]) # UriOf(deploy_result.requests[1])

\* C7: a deployment fails, and submits nothing, for every checkpoint path that
\* is not a mount path of the job followed by a separator and a non-empty
\* remainder, a path in a sibling directory whose name extends the mount path
\* included.
C7_FailsOutsideMount ==
    [][DeployStep /\ (\A m \in PvcMountPaths : ~Under(checkpoints_value, m))
       => /\ deploy_result'.outcome # "created"
          /\ deploy_result'.requests = <<>>
          /\ services' = services]_vars

(***************************************************************************)
(* The path functions: what the claims speak of                            *)
(***************************************************************************)

\* C6: with mount path /opt/data, /opt/data/ckpt-100 resolves to ckpt-100,
\* /other/ckpt-100 fails and /opt/data itself fails; and every successful
\* result is not empty and is what is left of the checkpoint path after the
\* mount path and at most one separator are removed from its front.
C6_RelativePath ==
    call.fn = "_extract_relative_path_for_pvc" /\ call.result # Pending
    => LET checkpoint == call.args[1]
           mount_path == call.args[2]
           relative == call.result
       IN  /\ mount_path = P_opt_data /\ checkpoint = P_opt_data_ckpt_100
              => relative = <<"c","k","p","t","-","1","0","0">>
           /\ mount_path = P_opt_data /\ checkpoint = P_other_ckpt_100 => relative = None
           /\ mount_path = P_opt_data /\ checkpoint = P_opt_data => relative = None
           /\ relative # None
              => /\ relative # <<>>
                 /\ \/ checkpoint = mount_path \o relative /\ relative[1] # "/"
                    \/ checkpoint = mount_path \o <<"/">> \o relative

\* /opt/data/ckpt-100 was resolved under /opt/data
C6_Witness ==
    call = Call("_extract_relative_path_for_pvc", <<P_opt_data_ckpt_100, P_opt_data>>,
                <<"c","k","p","t","-","1","0","0">>)

\* the positions of the entries of the path_mapping whose training prefix is a
\* prefix of path
MatchingEntries(path) ==
    {i \in 1..Len(path_mapping) : StartsWith(path, path_mapping[i][1])}

\* C8: the first entry of the table, in table order, whose training prefix is
\* a prefix of the path is applied, and its deployment prefix takes the place
\* of the leading occurrence of the training prefix only; a path no entry
\* matches comes back unchanged.  {"/train": "pvc://shared"} maps
\* /train/ckpt-5 to pvc://shared/ckpt-5 and leaves /other/ckpt-5 unchanged.
C8_RewriteTable ==
    call.fn = "_map_checkpoint_path" /\ call.result # Pending
    => LET path == call.args[1]
           matching == MatchingEntries(path)
           first == CHOOSE i \in matching : \A j \in matching : i <= j
       IN  /\ matching = {} => call.result = path
           /\ matching # {}
              => call.result = path_mapping[first][2]
                               \o SubSeq(path, Len(path_mapping[first][1]) + 1, Len(path))
           /\ path_mapping = T_train /\ path = P_train_ckpt_5
              => call.result = U_shared_ckpt_5
           /\ path_mapping = T_train /\ path = P_other_ckpt_5
              => call.result = P_other_ckpt_5

\* a path two entries match, and in which the first one's prefix occurs
\* twice, was mapped
C8_Witness ==
    /\ call.fn = "_map_checkpoint_path"
    /\ call.result # Pending
    /\ Cardinality(MatchingEntries(call.args[1])) = 2
    /\ call.args[1] = <<"a", "a", "2">>
    /\ path_mapping[1][1] = <<"a">>
    /\ call.result = path_mapping[1][2] \o <<"a", "2">>

(***************************************************************************)
(* The registry: what the claims speak of                                  *)
(***************************************************************************)

\* a pass over the logs.  Of the steps of discovery, a scan and a poll cycle
\* of the monitor are those that leave the token, the logs, the clock and the
\* monitoring switches alone; the start of the monitor, which scans first, is
\* the one that brings the worker to life
PassStep ==
    \/ UNCHANGED <<kube_token, pod_logs, clock, monitor_logs_checkbox, stop_monitoring,
                   log_monitor_alive, log_status>>
    \/ ~log_monitor_alive /\ log_monitor_alive'

\* how many entries of a list equal x
Count(xs, x) == Cardinality({i \in 1..Len(xs) : xs[i] = x})

\* the list of mapped paths of a registry holding the paths of detected has
\* one entry for every one of them
OneEntryEach(detected) ==
    LET checkpoints == find_checkpoints_of(detected)
    IN  /\ Len(checkpoints) = Cardinality(detected)
        /\ \A path \in detected :
               Count(checkpoints, map_checkpoint_path(path))
                   = Cardinality({other \in detected :
                                     map_checkpoint_path(other) = map_checkpoint_path(path)})

\* C9: whichever of the scanner and the monitor records a path, one pass after
\* the other, a match is taken as newly added exactly when the path was not
\* recorded before (in an earlier pass or earlier in this one) and as already
\* known otherwise, and afterwards the list of mapped paths holds exactly one
\* entry for it.
C9_RecordTwice ==
    [][PassStep
       => /\ \A i \in 1..Len(reports') :
                 /\ reports'[i].new
                    <=> /\ reports'[i].path \notin detected_checkpoints
                        /\ \A j \in 1..(i - 1) : reports'[j].path # reports'[i].path
                 /\ reports'[i].path \in detected_checkpoints'
          /\ OneEntryEach(detected_checkpoints')]_vars

\* the monitor met a path again that a scan had recorded at an earlier time,
\* and the list holds the one entry
C9_Witness ==
    /\ reports = <<Report("monitor", P_checkpoint_200, FALSE)>>
    /\ last_checkpoint_time[P_checkpoint_200] < clock
    /\ find_checkpoints = <<P_checkpoint_200>>

\* C10: the list of mapped paths is sorted and holds no path twice, so two
\* recorded paths the path_mapping maps to one deployment path give one entry.
C10_SortedNoDuplicates ==
    \A i, j \in 1..Len(find_checkpoints) :
        i < j => StrLess(find_checkpoints[i], find_checkpoints[j])

\* the patterns that match a line, by position
MatchingPatterns ==
    [line \in LogLines |->
        {i \in 1..Len(checkpoint_patterns) :
            Search(checkpoint_patterns[i], Strip(line)) # None}]

\* what directory extraction makes of the match of pattern i in a line
ExtractedBy(line, i) ==
    extract_checkpoint_directory(Search(checkpoint_patterns[i], Strip(line)), i)

\* what a line should record: what directory extraction makes of the match of
\* the first pattern, in the declared order, that matches it
FirstMatchRecord ==
    [line \in LogLines |->
        IF MatchingPatterns[line] = {} THEN None
        ELSE ExtractedBy(line, CHOOSE i \in MatchingPatterns[line] :
                                   \A j \in MatchingPatterns[line] : i <= j)]

\* the first matching pattern of the line is rejected though a later pattern
\* matches it and is accepted
RejectedFirst(line) ==
    /\ MatchingPatterns[line] # {}
    /\ FirstMatchRecord[line] = None
    /\ \E i \in MatchingPatterns[line] : ExtractedBy(line, i) # None

\* the lines of the logs
LoggedLines(logs) == UNION {Range(logs[i]) : i \in 1..Len(logs)}

\* C18: per log line only the first pattern that matches, in the declared
\* order, is used: a pass prints at most one match per line of the logs, every
\* path it prints or records is what the first matching pattern of a logged
\* line yields, and a line whose first matching pattern is rejected yields
\* nothing, even if a later pattern matches it.
C18_FirstPatternOnly ==
    [][PassStep
       => LET yields == {FirstMatchRecord[line] : line \in LoggedLines(pod_logs)} \ {None}
          IN  /\ Len(reports') <= TotalLen(pod_logs)
              /\ \A i \in 1..Len(reports') : reports'[i].path \in yields
              /\ detected_checkpoints' \ detected_checkpoints \subseteq yields
              /\ \A line \in LoggedLines(pod_logs) :
                     RejectedFirst(line) => checkpoint_of[line] = None]_vars

\* a scan read a line whose first matching pattern is rejected, and the line
\* after it: only the second one is recorded
C18_Witness ==
    /\ pod_logs = <<<<L_rejected_first, L_other_file>>>>
    /\ RejectedFirst(L_rejected_first)
    /\ Len(reports) = 1
    /\ reports[1] = Report("scan", P_other_ckpt_5, TRUE)
    /\ detected_checkpoints = {P_other_ckpt_5}

(***************************************************************************)
(* The text functions on their own                                         *)
(***************************************************************************)

\* the longest generated name
MaxNameInputLen == 4

\* the characters generated names are made of
NameAlphabet == {"a", "B", "7", "-", "_", "/"}

GeneratedNames == UNION {[1..n -> NameAlphabet] : n \in 0..MaxNameInputLen}

\* n times the character c
Repeat(c, n) == [i \in 1..n |-> c]

\* names at and beyond the length limit: plain ones, ones with a hyphen where
\* the truncation cuts, and a long name after a path
LongNames ==
    {Repeat("a", n) : n \in {MaxNameLen - 1, MaxNameLen, MaxNameLen + 1, MaxNameLen + 7}}
    \cup {Repeat("a", TruncatedLen - 1) \o <<"-">> \o Repeat("b", n) : n \in {3, 4, 9}}
    \cup {Repeat("a", TruncatedLen) \o <<"-">> \o Repeat("B", n) : n \in {2, 3, 8}}
    \cup {<<"/", "x", "/">> \o Repeat("_", 2) \o Repeat("c", MaxNameLen + 2)}

\* what _sanitize_kubernetes_name is applied to (None: nothing is selected)
N_run_1 == <<"r","u","n","_","_","_","1">>

NameInputs ==
    GeneratedNames \cup LongNames \cup {None, P_checkpoint_200, P_sibling, N_run_1}

\* the characters generated raw paths are made of
RawPathAlphabet == {"/", "a", "."}

P_a_b_model == <<"/","a","/","b","/","m","o","d","e","l">>

P_a_b_model_ckpt == <<"/","a","/","b","/","m","o","d","e","l",".","c","k","p","t">>

\* what _extract_checkpoint_directory is applied to: short raw paths, and
\* paths that end in a dot and one to five letters
RawPathInputs ==
    UNION {[1..n -> RawPathAlphabet] : n \in 0..MaxNameInputLen}
    \cup {P_a_b_model, P_a_b_model_ckpt, P_checkpoint_200, P_model_dir}
    \cup {Repeat("/", n) \o <<"m", "o", "d", "e", "l">> : n \in 1..3}
    \cup {<<"/", "m", ".">> \o Repeat("x", n) : n \in 1..5}
    \cup {<<"/", "m", ".">> \o Repeat("x", n) \o <<"1">> : n \in 1..3}

PatternIndices == 1..Len(checkpoint_patterns)

\* a session in which one of the text functions is about to be called
InitText ==
    /\ SessionInit(SessionScenarios)
    /\ \/ \E name \in NameInputs :
              call = Call("_sanitize_kubernetes_name", <<name>>, Pending)
       \/ \E matched_path \in RawPathInputs, pattern_index \in PatternIndices :
              call = Call("_extract_checkpoint_directory",
                          <<matched_path, pattern_index>>, Pending)

\* _sanitize_kubernetes_name returns
SanitizeKubernetesName ==
    /\ call.fn = "_sanitize_kubernetes_name"
    /\ call.result = Pending
    /\ call' = [call EXCEPT !.result = sanitize_kubernetes_name(call.args[1])]
    /\ UNCHANGED <<cluster_vars, destroyed, thread_vars, watch_vars, clock, kube_token, pod_logs, pytorchjob_value,
                   registry_vars, checkpoint_widget_vars, services, service_widget_vars,
                   monitor_vars, reports, deploy_result>>

\* _extract_checkpoint_directory returns
ExtractCheckpointDirectory ==
    /\ call.fn = "_extract_checkpoint_directory"
    /\ call.result = Pending
    /\ call' = [call EXCEPT !.result =
                   extract_checkpoint_directory(call.args[1], call.args[2])]
    /\ UNCHANGED <<cluster_vars, destroyed, thread_vars, watch_vars, clock, kube_token, pod_logs, pytorchjob_value,
                   registry_vars, checkpoint_widget_vars, services, service_widget_vars,
                   monitor_vars, reports, deploy_result>>

NextText == SanitizeKubernetesName \/ ExtractCheckpointDirectory

\* the text functions on bounded inputs
SpecText == InitText /\ [][NextText]_vars

(***************************************************************************)
(* Claims about the text functions                                         *)
(***************************************************************************)

\* a call of fn has returned
Returned(fn) == call.fn = fn /\ call.result # Pending

\* C14: _sanitize_kubernetes_name is idempotent: applied to its own result
\* it returns that result.
C14_SanitizeIdempotent ==
    Returned("_sanitize_kubernetes_name")
        => sanitize_kubernetes_name(call.result) = call.result

\* a name longer than the limit was sanitized to something else
C14_Witness ==
    /\ Returned("_sanitize_kubernetes_name")
    /\ call.args[1] # None
    /\ Len(call.args[1]) > MaxNameLen
    /\ call.result # call.args[1]

\* a legal Kubernetes name: 1 to 63 characters of [a-z0-9-], the first one of
\* [a-z0-9]
LegalName(s) ==
    /\ Len(s) \in 1..63
    /\ \A i \in 1..Len(s) : s[i] \in LowerLetters \cup Digits \cup {"-"}
    /\ s[1] \in LowerLetters \cup Digits

\* nothing of the name remains: it is missing, or what follows its last slash
\* has no letter and no digit
NothingRemains(name) ==
    \/ name = None
    \/ \A i \in (RFind(name, "/") + 1)..Len(name) : name[i] \notin Letters \cup Digits

\* C15: _sanitize_kubernetes_name is total and its result is always a legal
\* name (1 to 63 characters of [a-z0-9-], starting with [a-z0-9]); when
\* nothing of the input remains the result is the fallback constant.
C15_SanitizeLegal ==
    /\ call.fn = "_sanitize_kubernetes_name" /\ call.result = Pending
           => LegalName(sanitize_kubernetes_name(call.args[1]))
    /\ Returned("_sanitize_kubernetes_name")
           => /\ LegalName(call.result)
              /\ NothingRemains(call.args[1]) => call.result = W_inference_service

\* a name of illegal characters only came back as the fallback constant
C15_Witness ==
    /\ Returned("_sanitize_kubernetes_name")
    /\ call.args[1] # None
    /\ Len(call.args[1]) > 1
    /\ NothingRemains(call.args[1])
    /\ call.result = W_inference_service

\* the raw path is absolute
Absolute(path) == path # <<>> /\ path[1] = "/"

\* the path without its trailing slashes
RECURSIVE WithoutTrailingSlashes(_)
WithoutTrailingSlashes(path) ==
    IF path # <<>> /\ path[Len(path)] = "/"
    THEN WithoutTrailingSlashes(SubSeq(path, 1, Len(path) - 1))
    ELSE path

\* the directory that contains the file an absolute path names; the empty
\* path stands for the filesystem root
ContainingDirectory(path) == WithoutTrailingSlashes(SubSeq(path, 1, RFind(path, "/")))

\* C16: for a pattern index of the file-extension subset, directory
\* extraction returns the containing directory of an absolute raw path, and
\* nothing when the raw path is not absolute or when its containing directory
\* is the filesystem root.
C16_FileDirectory ==
    Returned("_extract_checkpoint_directory") /\ call.args[2] \in {7, 8, 9, 10}
        => LET rawPath == call.args[1]
           IN  call.result =
                   IF Absolute(rawPath) /\ ContainingDirectory(rawPath) # <<>>
                   THEN ContainingDirectory(rawPath)
                   ELSE None

\* the path ends in a dot followed by n letters
EndsInDotLetters(path, n) ==
    /\ Len(path) > n
    /\ path[Len(path) - n] = "."
    /\ \A i \in (Len(path) - n + 1)..Len(path) : path[i] \in Letters

\* C17: for a pattern index outside the file-extension subset, directory
\* extraction returns the raw path unchanged exactly when it is absolute and
\* does not end in a dot followed by 2 to 4 letters, and nothing otherwise;
\* whatever the extraction returns, for any index, is absolute.
C17_DirectoryPath ==
    Returned("_extract_checkpoint_directory")
        => LET rawPath == call.args[1]
               accepted == /\ Absolute(rawPath)
                           /\ \A n \in 2..4 : ~EndsInDotLetters(rawPath, n)
           IN  /\ call.args[2] \notin {7, 8, 9, 10}
                      => call.result = IF accepted THEN rawPath ELSE None
               /\ call.result # None => Absolute(call.result)

\* an absolute path that ends in a dot and two letters was rejected
C17_Witness ==
    /\ Returned("_extract_checkpoint_directory")
    /\ call.args[2] = 3
    /\ Absolute(call.args[1])
    /\ EndsInDotLetters(call.args[1], 2)
    /\ call.result = None

(***************************************************************************)
(* The scanner and the monitor, statement by statement                     *)
(*                                                                         *)
(* The click handler runs _scan_job_for_checkpoints on the foreground      *)
(* thread while _monitor_logs_worker runs on its own thread; no lock       *)
(* guards self.detected_checkpoints and self.last_checkpoint_time, so the  *)
(* statements of the two interleave.                                       *)
(***************************************************************************)

\* the job has logged one checkpoint before the session and logs another one
\* while it runs
RaceScenarios ==
    {Scenario(J_std, T_none, Pods_master, <<<<L_checkpoint_200>>>>, {L_sibling})}

\* the checkpoint paths the lines of a log yield, in the order of the lines
RECURSIVE matches_of(_)
matches_of(lines) ==
    IF lines = <<>> THEN <<>>
    ELSE (IF checkpoint_of[lines[1]] # None THEN <<checkpoint_of[lines[1]]>> ELSE <<>>)
         \o matches_of(Tail(lines))

\* the matches of the last window[i] lines of every pod i of positions
RECURSIVE pod_matches(_, _)
pod_matches(positions, window) ==
    IF positions = <<>> THEN <<>>
    ELSE matches_of(LastLines(pod_logs[positions[1]], window[positions[1]]))
         \o pod_matches(Tail(positions), window)

\* a read without since_seconds returns the whole log
WholeLogs == [i \in PodPositions |-> Len(pod_logs[i])]

\* what both tests of the registry would take for recorded
RecordedPaths == detected_checkpoints \cup DOMAIN last_checkpoint_time

\* a thread enters the loop over the lines
Entering(todo) ==
    [IdleThread EXCEPT !.pc = "next", !.todo = todo, !.known = RecordedPaths]

\* a thread takes the next match: checkpoint_path and timestamp are set
Taking(thread) ==
    [thread EXCEPT !.pc = "test", !.checkpoint_path = Head(thread.todo),
                   !.todo = Tail(thread.todo), !.timestamp = clock]

\* a store that is lost
StoreLost(d, k, v) == d

\* the dict d with d[k] = v
Store(d, k, v) == [x \in DOMAIN d \cup {k} |-> IF x = k THEN v ELSE d[x]]

\* what the steps of the two threads leave alone
race_frame == <<cluster_vars, destroyed, watch_vars, clock, kube_token, pod_logs, pytorchjob_value, services,
                service_widget_vars, monitor_logs_checkbox, stop_monitoring,
                log_monitor_alive, monitor_workers, log_status, reports, deploy_result,
                call>>

\* update_checkpoints_dropdown() with the list find_checkpoints built
UpdateCheckpointsDropdown(detected) ==
    LET d == dropdown_after_update(detected)
    IN  /\ checkpoints_options' = d.options
        /\ checkpoints_value' = d.value
        /\ inference_service_name' = d.name

\* _scan_checkpoints_button_click up to the loop over the lines: the pods are
\* listed and their logs read
ScanBegin ==
    /\ scan_thread.pc = "idle"
    /\ scan_thread' =
           IF pytorchjob_value = None THEN scan_thread
           ELSE IF ~kube_token THEN Entering(<<>>)
           ELSE Entering(pod_matches(scan_pods_found(pytorchjob_value), WholeLogs))
    /\ UNCHANGED <<race_frame, registry_vars, checkpoint_widget_vars, monitor_thread,
                   monitor_pods_found>>

\* the scanner reaches a line that yields a path: timestamp = datetime.now()
ScanNextMatch ==
    /\ scan_thread.pc = "next"
    /\ scan_thread.todo # <<>>
    /\ scan_thread' = Taking(scan_thread)
    /\ UNCHANGED <<race_frame, registry_vars, checkpoint_widget_vars, monitor_thread,
                   monitor_pods_found>>

\* if checkpoint_path not in self.detected_checkpoints
ScanTest ==
    /\ scan_thread.pc = "test"
    /\ scan_thread' =
           IF scan_thread.checkpoint_path \notin detected_checkpoints
           THEN [scan_thread EXCEPT !.pc = "add"]
           ELSE [scan_thread EXCEPT !.pc = "next",
                    !.printed = Append(@, Report("scan", scan_thread.checkpoint_path, FALSE))]
    /\ UNCHANGED <<race_frame, registry_vars, checkpoint_widget_vars, monitor_thread,
                   monitor_pods_found>>

\* self.detected_checkpoints.add(checkpoint_path)
ScanAdd ==
    /\ scan_thread.pc = "add"
    /\ detected_checkpoints' = detected_checkpoints \cup {scan_thread.checkpoint_path}
    /\ scan_thread' = [scan_thread EXCEPT !.pc = "write"]
    /\ UNCHANGED <<race_frame, last_checkpoint_time, checkpoint_widget_vars, monitor_thread,
                   monitor_pods_found>>

\* self.last_checkpoint_time[checkpoint_path] = timestamp, and the print of
\* the new folder
ScanWriteTime ==
    /\ scan_thread.pc = "write"
    /\ last_checkpoint_time' =
           Store(last_checkpoint_time, scan_thread.checkpoint_path, scan_thread.timestamp)
    /\ scan_thread' =
           [scan_thread EXCEPT !.pc = "next",
               !.printed = Append(@, Report("scan", scan_thread.checkpoint_path, TRUE))]
    /\ UNCHANGED <<race_frame, detected_checkpoints, checkpoint_widget_vars, monitor_thread,
                   monitor_pods_found>>

\* the lines are done: with matches, update_checkpoints_dropdown() enters the
\* loop of find_checkpoints over the set
ScanUpdateBegin ==
    /\ scan_thread.pc = "next"
    /\ scan_thread.todo = <<>>
    /\ scan_thread' =
           IF scan_thread.printed # <<>>
           THEN [scan_thread EXCEPT !.pc = "iterate", !.iterated = detected_checkpoints]
           ELSE [scan_thread EXCEPT !.pc = "idle"]
    /\ UNCHANGED <<race_frame, registry_vars, checkpoint_widget_vars, monitor_thread,
                   monitor_pods_found>>

\* the loop of find_checkpoints ends.  When the set has grown meanwhile the
\* loop has either visited every element before the insertion, or it raises
\* RuntimeError (set changed size during iteration), which the scanner
\* catches and prints
ScanUpdateEnd(raises) ==
    /\ scan_thread.pc = "iterate"
    /\ raises => detected_checkpoints # scan_thread.iterated
    /\ IF raises THEN UNCHANGED checkpoint_widget_vars
       ELSE UpdateCheckpointsDropdown(scan_thread.iterated)
    /\ scan_thread' = [scan_thread EXCEPT !.pc = "idle"]
    /\ UNCHANGED <<race_frame, registry_vars, monitor_thread, monitor_pods_found>>

\* the worker starts a cycle: the pods are listed and the recent lines read
MonitorBegin(window) ==
    /\ log_monitor_alive
    /\ ~stop_monitoring
    /\ monitor_thread.pc = "idle"
    /\ monitor_thread' = Entering(pod_matches(monitor_all_pods(W_train_1), window))
    /\ monitor_pods_found' = TRUE
    /\ UNCHANGED <<race_frame, registry_vars, checkpoint_widget_vars, scan_thread>>

\* the worker reaches a line that yields a path: timestamp = datetime.now()
MonitorNextMatch ==
    /\ monitor_thread.pc = "next"
    /\ monitor_thread.todo # <<>>
    /\ monitor_thread' = Taking(monitor_thread)
    /\ UNCHANGED <<race_frame, registry_vars, checkpoint_widget_vars, scan_thread,
                   monitor_pods_found>>

\* if checkpoint_path not in self.last_checkpoint_time
MonitorTest ==
    /\ monitor_thread.pc = "test"
    /\ monitor_thread' =
           IF monitor_thread.checkpoint_path \notin DOMAIN last_checkpoint_time
           THEN [monitor_thread EXCEPT !.pc = "write"]
           ELSE [monitor_thread EXCEPT !.pc = "next",
                    !.printed = Append(@, Report("monitor", monitor_thread.checkpoint_path,
                                                 FALSE))]
    /\ UNCHANGED <<race_frame, registry_vars, checkpoint_widget_vars, scan_thread,
                   monitor_pods_found>>

\* self.last_checkpoint_time[checkpoint_path] = timestamp
MonitorWriteTime ==
    /\ monitor_thread.pc = "write"
    /\ last_checkpoint_time' =
           Store(last_checkpoint_time, monitor_thread.checkpoint_path,
                 monitor_thread.timestamp)
    /\ monitor_thread' = [monitor_thread EXCEPT !.pc = "add"]
    /\ UNCHANGED <<race_frame, detected_checkpoints, checkpoint_widget_vars, scan_thread,
                   monitor_pods_found>>

\* self.detected_checkpoints.add(checkpoint_path), the print of the new
\* folder, and update_checkpoints_dropdown() entering the loop of
\* find_checkpoints
MonitorAdd ==
    /\ monitor_thread.pc = "add"
    /\ detected_checkpoints' = detected_checkpoints \cup {monitor_thread.checkpoint_path}
    /\ monitor_thread' =
           [monitor_thread EXCEPT !.pc = "iterate", !.iterated = detected_checkpoints',
               !.printed = Append(@, Report("monitor", monitor_thread.checkpoint_path, TRUE))]
    /\ UNCHANGED <<race_frame, last_checkpoint_time, checkpoint_widget_vars, scan_thread,
                   monitor_pods_found>>

\* the loop of find_checkpoints ends in the worker; a RuntimeError is caught
\* around the lines of the pod, whose other lines are skipped
MonitorUpdateEnd(raises) ==
    /\ monitor_thread.pc = "iterate"
    /\ raises => detected_checkpoints # monitor_thread.iterated
    /\ IF raises THEN UNCHANGED checkpoint_widget_vars
       ELSE UpdateCheckpointsDropdown(monitor_thread.iterated)
    /\ monitor_thread' = [monitor_thread EXCEPT !.pc = "next",
                                                !.todo = IF raises THEN <<>> ELSE @]
    /\ UNCHANGED <<race_frame, registry_vars, scan_thread, monitor_pods_found>>

\* the lines are done: time.sleep(5)
MonitorCycleEnd ==
    /\ monitor_thread.pc = "next"
    /\ monitor_thread.todo = <<>>
    /\ monitor_thread' = [monitor_thread EXCEPT !.pc = "idle"]
    /\ UNCHANGED <<race_frame, registry_vars, checkpoint_widget_vars, scan_thread,
                   monitor_pods_found>>

\* the foreground runs one handler at a time; the worker leaves its loop
\* between two cycles
ForegroundIdle == scan_thread.pc = "idle"

NextRace ==
    \/ ForegroundIdle /\ EnterCredentials(FALSE, FALSE)
    \/ \E i \in PodPositions, line \in training_lines : WriteLogLine(i, line)
    \/ ClockTick
    \/ ForegroundIdle /\ StartLogMonitoring(FALSE, {})
    \/ ForegroundIdle /\ StopLogMonitoring
    \/ monitor_thread.pc = "idle" /\ MonitorLogsExit
    \/ ScanBegin
    \/ ScanNextMatch
    \/ ScanTest
    \/ ScanAdd
    \/ ScanWriteTime
    \/ ScanUpdateBegin
    \/ \E raises \in BOOLEAN : ScanUpdateEnd(raises)
    \/ \E window \in Windows : MonitorBegin(window)
    \/ MonitorNextMatch
    \/ MonitorTest
    \/ MonitorWriteTime
    \/ MonitorAdd
    \/ \E raises \in BOOLEAN : MonitorUpdateEnd(raises)
    \/ MonitorCycleEnd

\* a scan and the monitor at work together
SpecRace == InitOf(RaceScenarios) /\ [][NextRace]_vars

(***************************************************************************)
(* Claims about the registry under both threads                            *)
(***************************************************************************)

\* C11: the registry is append-only: no step removes a recorded path from
\* it, and no step changes the first_seen value stored for a path.
C11_AppendOnly ==
    [][/\ detected_checkpoints \subseteq detected_checkpoints'
       /\ DOMAIN last_checkpoint_time \subseteq DOMAIN last_checkpoint_time'
       /\ \A path \in DOMAIN last_checkpoint_time :
              last_checkpoint_time'[path] = last_checkpoint_time[path]]_vars

\* the pass of the thread has taken the path for newly added, or for known
Took(thread, by, path, new) ==
    \E i \in 1..Len(thread.printed) : thread.printed[i] = Report(by, path, new)

\* C12: when a scan and a cycle of the monitor have both handled a line for a
\* path that was recorded nowhere when either of them began, exactly one of
\* the two has taken the path for newly added.
C12_OneWriterTakesNew ==
    \A path \in RecordedPaths \ (scan_thread.known \cup monitor_thread.known) :
        (/\ \E new \in BOOLEAN : Took(scan_thread, "scan", path, new)
         /\ \E new \in BOOLEAN : Took(monitor_thread, "monitor", path, new))
            => Took(scan_thread, "scan", path, TRUE)
                   # Took(monitor_thread, "monitor", path, TRUE)

\* the worker is between its test of the registry and the end of its insertion
MonitorInserting == monitor_thread.pc \in {"write", "add"}

\* the foreground is between its test of the registry and the end of its
\* insertion
ForegroundInserting == scan_thread.pc \in {"add", "write"}

\* the foreground is in the loop of find_checkpoints over the registry
ForegroundIterating == scan_thread.pc = "iterate"

\* C13: in no reachable state is the worker inserting into the registry while
\* the foreground iterates over it or inserts into it.
C13_MutualExclusion ==
    ~(MonitorInserting /\ (ForegroundIterating \/ ForegroundInserting))

(***************************************************************************)
(* ServiceWatcher                                                          *)
(***************************************************************************)

\* a condition of the status of an InferenceService
Condition(type, status, reason, message) ==
    [type |-> type, status |-> status, reason |-> reason, message |-> message]

\* statuses the KServe controller gives a service
St_progressing ==
    [conditions |-> <<Condition("Ready", "False", "Progressing", "")>>, url |-> ""]

St_failing ==
    [conditions |-> <<Condition("Ready", "False", "Failed", "no capacity")>>, url |-> ""]

St_undecided ==
    [conditions |-> <<Condition("Ready", "Unknown", "", "")>>, url |-> ""]

St_ready ==
    [conditions |-> <<Condition("Ready", "True", "", "")>>, url |-> "http://my-svc"]

St_ready_all ==
    [conditions |-> <<Condition("PredictorReady", "True", "", ""),
                      Condition("Ready", "True", "", "")>>,
     url |-> "http://my-svc"]

St_ready_settled ==
    [conditions |-> <<Condition("PredictorReady", "True", "Settled", ""),
                      Condition("Ready", "True", "", "")>>,
     url |-> "http://my-svc"]

St_ready_moved ==
    [conditions |-> <<Condition("Ready", "True", "", "")>>, url |-> "http://my-svc-2"]

StatusInputs == {St_progressing, St_failing, St_undecided, St_ready, St_ready_all,
                 St_ready_settled, St_ready_moved}

\* a variant of the snapshot that holds the Ready status only
current_ready_status_only(status) ==
    LET ready == ready_condition(status.conditions)
    IN  IF ready = <<>> THEN <<"Unknown", "", "", "", 0>>
        ELSE <<ready[1].status, "", "", "", 0>>

\* current_full_status of a poll, as the tuple of ready_status, ready_reason,
\* ready_message, url and conditions_count
current_full_status_of(status) ==
    LET ready == ready_condition(status.conditions)
    IN  IF ready = <<>>
        THEN <<"Unknown", "", "", status.url, Len(status.conditions)>>
        ELSE <<ready[1].status, ready[1].reason, ready[1].message, status.url,
               Len(status.conditions)>>

\* a variant of the test for the celebration that leaves out the last status
became_ready_always(ready_status, last_ready_status) == ready_status = "True"

\* ready_status == 'True' and last_ready_status != 'True'
became_ready(ready_status, last_ready_status) ==
    ready_status = "True" /\ last_ready_status # "True"

\* the cluster already holds one service
WatchServices == <<inference_service(W_my_svc, U_models_checkpoint_200)>>

WatchScenarios == {Scenario(J_std, T_none, Pods_master, <<<<>>>>, {})}

\* what the steps of the watcher leave alone
watch_frame == <<cluster_vars, destroyed, thread_vars, clock, kube_token, pod_logs, pytorchjob_value,
                 registry_vars, checkpoint_widget_vars, monitor_vars, reports,
                 deploy_result, call>>

\* the controller of the cluster gives service i a status
SetServiceStatus(i, status) ==
    /\ i \in 1..Len(services)
    /\ status_of(services[i]) # status
    /\ services' = [services EXCEPT ![i] =
                       [k \in DOMAIN services[i] \cup {"status"} |->
                           IF k = "status" THEN status ELSE services[i][k]]]
    /\ UNCHANGED <<watch_frame, service_widget_vars, watch_vars>>

\* somebody deletes service i on the cluster
ClusterDeletesService(i) ==
    /\ i \in 1..Len(services)
    /\ services' = SubSeq(services, 1, i - 1) \o SubSeq(services, i + 1, Len(services))
    /\ UNCHANGED <<watch_frame, service_widget_vars, watch_vars>>

\* _update_inferenceservice_dropdown() with the observers of the dropdown's
\* value: the new options and value, and whether the watch checkbox is set to
\* False, by _on_inferenceservice_selection_change when the value changes
\* while the worker is alive, or because the selected service is gone
refresh_services(list_fails) ==
    LET d == services_dropdown_after(service_names, TRUE, list_fails)
        assigned == IF d.options = inferenceservice_options THEN inferenceservice_value
                    ELSE IF d.options = <<>> THEN None ELSE d.options[1]
        deleted == /\ kube_token /\ ~list_fails
                   /\ inferenceservice_value # None
                   /\ name_of_selection(inferenceservice_value) \notin Range(service_names)
        selection_changed == assigned # inferenceservice_value \/ d.value # assigned
    IN  [options |-> d.options, value |-> d.value,
         unchecks |-> /\ watch_service_checkbox
                      /\ deleted \/ (selection_changed /\ service_watch_alive)]

\* the dropdown is refreshed from the worker; unchecking the box runs
\* _stop_service_watching
RefreshFromWorker(r) ==
    /\ inferenceservice_options' = r.options
    /\ inferenceservice_value' = r.value
    /\ watch_service_checkbox' = (watch_service_checkbox /\ ~r.unchecks)
    /\ watch_status' = IF r.unchecks THEN "Inactive" ELSE watch_status

\* _start_service_watching, run by the checkbox changing to True
StartServiceWatching ==
    /\ ~watch_service_checkbox
    /\ IF is_alive(service_watch_alive)
       THEN \* already monitoring
            /\ watch_service_checkbox' = TRUE
            /\ UNCHANGED <<stop_service_watching, service_watch_alive, watch_workers,
                           watch_status, watch_thread, watch_poll>>
       ELSE IF inferenceservice_value = None
       THEN \* the checkbox is set back, which runs _stop_service_watching
            /\ watch_service_checkbox' = FALSE
            /\ stop_service_watching' = TRUE
            /\ watch_status' = "Inactive"
            /\ UNCHANGED <<service_watch_alive, watch_workers, watch_thread, watch_poll>>
       ELSE /\ watch_service_checkbox' = TRUE
            /\ stop_service_watching' = FALSE
            /\ service_watch_alive' = TRUE
            /\ watch_workers' = watch_workers + 1
            /\ watch_status' = "Active"
            /\ watch_thread' = NewWatchThread(name_of_selection(inferenceservice_value))
            /\ watch_poll' = NoPoll
    /\ UNCHANGED <<watch_frame, services, service_widget_vars>>

\* _stop_service_watching, run by the checkbox changing to False
StopServiceWatching ==
    /\ watch_service_checkbox
    /\ watch_service_checkbox' = FALSE
    /\ stop_service_watching' = TRUE
    /\ watch_status' = "Inactive"
    /\ UNCHANGED <<watch_frame, services, service_widget_vars, service_watch_alive,
                   watch_workers, watch_thread, watch_poll>>

\* "self.stop_service_watching = True" before the break of the 404 branch
flag_after_not_found(flag) == TRUE

\* the worker returns after an error
returns_after_error(alive) == FALSE

\* "time.sleep(10); continue" of the other API errors, and the sleep at the end
\* of the handler of the unexpected ones: the worker stays in its loop
continues_after_error(alive) == alive

\* a worker that leaves with the status Error whatever the flag
status_error_always(flag, status) == "Error"

\* the finally clause of the worker: the status is Error unless a stop was
\* requested
status_when_leaving(flag, status) == IF ~flag THEN "Error" ELSE status

\* a worker that forgets what it last saw when a poll fails
locals_reset_by_error(thread) == NewWatchThread(thread.service_name)

\* the handlers of the errors other than 404 assign neither last_ready_status
\* nor last_full_status
locals_after_error(thread) == thread

\* one pass of "while not self.stop_service_watching" in _watch_service_worker.
\* fault: the read of the service raises for another reason than 404;
\* list_fails: the listing of the dropdown refresh raises
WatchPoll(fault, list_fails) ==
    /\ service_watch_alive
    /\ ~stop_service_watching
    /\ LET r == refresh_services(list_fails)
           current_full_status ==
               current_full_status_of(status_named(watch_thread.service_name))
           ready_status == current_full_status[1]
           status_changed ==
               \/ current_full_status # watch_thread.last_full_status
               \/ ready_status # watch_thread.last_ready_status
           printed ==
               IF ~status_changed THEN {}
               ELSE {"changed"} \cup
                    (IF became_ready(ready_status, watch_thread.last_ready_status)
                     THEN {"ready"} ELSE {})
       IN  IF fault
           THEN \* time.sleep(10); continue
                /\ watch_poll' = [watch_poll EXCEPT !.outcome = "error", !.printed = {}]
                /\ service_watch_alive' = continues_after_error(service_watch_alive)
                /\ watch_workers' = IF service_watch_alive' THEN watch_workers
                                    ELSE watch_workers - 1
                /\ watch_thread' = locals_after_error(watch_thread)
                /\ UNCHANGED <<service_widget_vars, watch_service_checkbox,
                               stop_service_watching, watch_status>>
           ELSE IF watch_thread.service_name \notin Range(service_names)
           THEN \* 404: the deletion is printed, the dropdown is refreshed and
                \* the worker leaves its loop, through the finally clause
                /\ inferenceservice_options' = r.options
                /\ inferenceservice_value' = r.value
                /\ watch_service_checkbox' = (watch_service_checkbox /\ ~r.unchecks)
                /\ stop_service_watching' =
                       flag_after_not_found(stop_service_watching \/ r.unchecks)
                /\ watch_status' =
                       status_when_leaving(stop_service_watching',
                                           IF r.unchecks THEN "Inactive" ELSE watch_status)
                /\ service_watch_alive' = FALSE
                /\ watch_workers' = watch_workers - 1
                /\ watch_poll' = [watch_poll EXCEPT !.outcome = "not_found",
                                                    !.printed = {"deleted"}]
                /\ UNCHANGED watch_thread
           ELSE /\ IF status_changed
                   THEN /\ RefreshFromWorker(r)
                        /\ stop_service_watching' = (stop_service_watching \/ r.unchecks)
                        /\ watch_thread' =
                               [watch_thread EXCEPT
                                   !.last_ready_status = ready_status,
                                   !.last_full_status = current_full_status]
                   ELSE UNCHANGED <<service_widget_vars, watch_service_checkbox,
                                    stop_service_watching, watch_status, watch_thread>>
                /\ watch_poll' =
                       [outcome |-> "ok", printed |-> printed,
                        observed |-> <<status_named(watch_thread.service_name)>>,
                        previous |-> watch_poll.observed,
                        unbroken |-> IF "ready" \in printed THEN TRUE
                                     ELSE watch_poll.unbroken /\ ready_status = "True",
                        retried |-> watch_poll.outcome = "error"]
                /\ UNCHANGED <<service_watch_alive, watch_workers>>
    /\ UNCHANGED <<watch_frame, services>>

\* the worker finds stop_service_watching set at the top of its loop and
\* returns, through the finally clause
WatchExit ==
    /\ service_watch_alive
    /\ stop_service_watching
    /\ service_watch_alive' = FALSE
    /\ watch_workers' = watch_workers - 1
    /\ watch_status' = status_when_leaving(stop_service_watching, watch_status)
    /\ UNCHANGED <<watch_frame, services, service_widget_vars, watch_service_checkbox,
                   stop_service_watching, watch_thread, watch_poll>>

NextWatch ==
    \/ \E list_fails \in BOOLEAN : EnterCredentials(FALSE, list_fails)
    \/ \E i \in 1..Len(services), status \in StatusInputs : SetServiceStatus(i, status)
    \/ \E i \in 1..Len(services) : ClusterDeletesService(i)
    \/ StartServiceWatching
    \/ StopServiceWatching
    \/ \E fault, list_fails \in BOOLEAN : WatchPoll(fault, list_fails)
    \/ WatchExit

\* the session opens on that cluster
InitWatch == SessionInitOn(WatchScenarios, WatchServices) /\ call = NoCall

\* a service on the cluster and the watcher on it
SpecWatch == InitWatch /\ [][NextWatch]_vars

\* the Ready condition a status reports, if any
ReadyOf(status) ==
    {c \in Range(status.conditions) :
        /\ c.type = "Ready"
        /\ \A i, j \in 1..Len(status.conditions) :
               status.conditions[i].type = "Ready" /\ status.conditions[j] = c => i >= j}

\* the Ready status a list of at most one status reports ("none" for none yet)
ReadyStatusOf(seen) ==
    IF seen = <<>> THEN "none"
    ELSE IF ReadyOf(seen[1]) = {} THEN "Unknown"
    ELSE (CHOOSE c \in ReadyOf(seen[1]) : TRUE).status

\* the snapshot of a status: Ready status, reason, message, url and condition
\* count
SnapshotOf(seen) ==
    IF seen = <<>> THEN <<>>
    ELSE LET status == seen[1]
         IN  [ready   |-> ReadyStatusOf(seen),
              reason  |-> IF ReadyOf(status) = {} THEN ""
                          ELSE (CHOOSE c \in ReadyOf(status) : TRUE).reason,
              message |-> IF ReadyOf(status) = {} THEN ""
                          ELSE (CHOOSE c \in ReadyOf(status) : TRUE).message,
              url     |-> status.url,
              count   |-> Len(status.conditions)]

\* the two snapshots differ (none yet differs from every snapshot)
Differ(seen, before) ==
    IF before = <<>> THEN seen # <<>> ELSE SnapshotOf(seen) # SnapshotOf(before)

\* C19: in every successful poll the worker prints the change notification
\* exactly when the snapshot it observes differs from the snapshot its last
\* successful poll observed (none yet counts as different): of two identical
\* snapshots in a row only the first is notified, and a change of reason,
\* message, url or condition count alone is notified too.
C19_ChangeNotification ==
    watch_poll.outcome = "ok"
        => ("changed" \in watch_poll.printed
                <=> Differ(watch_poll.observed, watch_poll.previous))

\* a poll notified a change of another field than the Ready status
C19_Witness ==
    /\ watch_poll.outcome = "ok"
    /\ watch_poll.previous # <<>>
    /\ Differ(watch_poll.observed, watch_poll.previous)
    /\ ReadyStatusOf(watch_poll.previous) = ReadyStatusOf(watch_poll.observed)
    /\ "changed" \in watch_poll.printed

\* C20: in a run of the worker "is now READY" is printed exactly in the
\* successful polls that observe Ready True after a successful poll that
\* observed another Ready status, or after none; it is never printed again
\* before a successful poll has observed another Ready status than True; and
\* a poll that prints it prints the change notification too.
C20_BecameReady ==
    /\ [](watch_poll.outcome = "ok"
            => /\ "ready" \in watch_poll.printed
                    <=> /\ ReadyStatusOf(watch_poll.observed) = "True"
                        /\ ReadyStatusOf(watch_poll.previous) # "True"
               /\ "ready" \in watch_poll.printed => "changed" \in watch_poll.printed)
    /\ [][(\E fault, list_fails \in BOOLEAN : WatchPoll(fault, list_fails))
            /\ "ready" \in watch_poll'.printed
          => ~watch_poll.unbroken]_vars

\* a poll observed Ready True after a poll that observed Ready False, and
\* printed both
C20_Witness ==
    /\ watch_poll.outcome = "ok"
    /\ ReadyStatusOf(watch_poll.previous) = "False"
    /\ ReadyStatusOf(watch_poll.observed) = "True"
    /\ watch_poll.printed = {"changed", "ready"}

(***************************************************************************)
(* The two workers step by step: starting, stopping and shutting down      *)
(***************************************************************************)

W_second_svc == <<"s","v","c","-","2">>

\* the first pod has logged a checkpoint
StopScenarios ==
    {Scenario(J_std, T_none, Pods_pair, <<<<L_checkpoint_200>>, <<>>>>, {})}

\* the cluster holds two services
StopServices == <<inference_service(W_my_svc, U_models_checkpoint_200),
                  inference_service(W_second_svc, U_models_checkpoint_200)>>

\* what the steps of the log monitor leave alone
cycle_frame == <<cluster_vars, destroyed, watch_vars, clock, kube_token, pod_logs,
                 pytorchjob_value, services, service_widget_vars, scan_thread,
                 monitor_logs_checkbox, stop_monitoring, log_monitor_alive,
                 monitor_workers, log_status, deploy_result, call>>

\* a worker that never finds the flag set inside a cycle
stop_ignored(flag) == FALSE

\* "if self.stop_monitoring: break" at the top of the loop over the pods and
\* of the loop over the lines
stop_seen(flag) == flag

\* "while not self.stop_monitoring": the worker lists the pods of a cycle;
\* list_fails: a listing raises, the worker sleeps and comes back here
CycleBegin(list_fails) ==
    /\ log_monitor_alive
    /\ monitor_thread.pc = "idle"
    /\ ~stop_monitoring
    /\ IF list_fails
       THEN /\ monitor_thread' = [IdleThread EXCEPT !.failed = "listing"]
            /\ reports' = <<>>
            /\ UNCHANGED monitor_pods_found
       ELSE /\ monitor_thread' =
                   [IdleThread EXCEPT
                       !.pc = IF monitor_all_pods(W_train_1) = <<>> THEN "idle" ELSE "pods",
                       !.todo = monitor_all_pods(W_train_1)]
            /\ monitor_pods_found' = TRUE
            /\ UNCHANGED reports
    /\ UNCHANGED <<cycle_frame, registry_vars, checkpoint_widget_vars>>

\* a read that returns the lines though it raised
lines_read_anyway(log, n, fails) == LastLines(log, n)

\* logs.split('\n') of read_namespaced_pod_log(since_seconds=60): the last n
\* lines, and nothing to go through when the read raises
lines_read(log, n, fails) == IF fails THEN <<>> ELSE LastLines(log, n)

\* "for pod in all_pods": the worker breaks when it finds the flag set, and
\* else asks for the last n lines of the log of the next pod; fails: the read
\* raises.  After the last pod it sleeps and goes back to the top of its loop
CycleReadPod(fails, n) ==
    /\ log_monitor_alive
    /\ monitor_thread.pc = "pods"
    /\ IF monitor_thread.todo = <<>> \/ stop_seen(stop_monitoring)
       THEN /\ n = 0 /\ ~fails
            /\ monitor_thread' = [monitor_thread EXCEPT !.pc = "idle", !.todo = <<>>]
       ELSE /\ n <= Len(pod_logs[monitor_thread.todo[1]])
            /\ monitor_thread' =
                   [monitor_thread EXCEPT
                       !.pc = "lines",
                       !.todo = Tail(monitor_thread.todo),
                       !.read = Append(monitor_thread.read, monitor_thread.todo[1]),
                       !.failed = IF fails THEN "log" ELSE "none",
                       !.lines = lines_read(pod_logs[monitor_thread.todo[1]], n, fails)]
    /\ UNCHANGED <<cycle_frame, registry_vars, checkpoint_widget_vars, monitor_pods_found,
                   reports>>

\* "for line in logs.split('\n')": the worker breaks when it finds the flag
\* set, and else handles the next line
CycleLine ==
    /\ log_monitor_alive
    /\ monitor_thread.pc = "lines"
    /\ IF monitor_thread.lines = <<>> \/ stop_seen(stop_monitoring)
       THEN /\ monitor_thread' = [monitor_thread EXCEPT !.pc = "pods", !.lines = <<>>]
            /\ UNCHANGED <<registry_vars, checkpoint_widget_vars, reports>>
       ELSE /\ monitor_thread' =
                   [monitor_thread EXCEPT !.lines = Tail(monitor_thread.lines)]
            /\ commit_registry(monitor_lines(
                   Registry(detected_checkpoints, last_checkpoint_time, <<>>, FALSE),
                   <<monitor_thread.lines[1]>>, clock))
    /\ UNCHANGED <<cycle_frame, monitor_pods_found>>

\* the worker finds the flag set at the top of its loop and returns
CycleExit == monitor_thread.pc = "idle" /\ MonitorLogsExit

\* the user picks another entry of the service dropdown:
\* _on_inferenceservice_selection_change unchecks the box of a live watcher,
\* which runs _stop_service_watching
SelectInferenceService(option) ==
    /\ option \in Range(inferenceservice_options)
    /\ option # inferenceservice_value
    /\ inferenceservice_value' = option
    /\ IF watch_service_checkbox /\ service_watch_alive
       THEN /\ watch_service_checkbox' = FALSE
            /\ stop_service_watching' = TRUE
            /\ watch_status' = "Inactive"
       ELSE UNCHANGED <<watch_service_checkbox, stop_service_watching, watch_status>>
    /\ UNCHANGED <<watch_frame, services, inferenceservice_options, service_watch_alive,
                   watch_workers, watch_thread, watch_poll>>

\* a destructor that stops the log monitor only
DelLogMonitorOnly ==
    /\ ~destroyed
    /\ destroyed' = TRUE
    /\ stop_monitoring' = TRUE
    /\ log_status' = "Inactive"
    /\ UNCHANGED <<cluster_vars, thread_vars, watch_vars, clock, kube_token, pod_logs,
                   pytorchjob_value, registry_vars, checkpoint_widget_vars, services,
                   service_widget_vars, monitor_logs_checkbox, log_monitor_alive,
                   monitor_pods_found, monitor_workers, reports, deploy_result, call>>

\* __del__: _stop_log_monitoring() and _stop_service_watching()
Del ==
    /\ ~destroyed
    /\ destroyed' = TRUE
    /\ stop_monitoring' = TRUE
    /\ log_status' = "Inactive"
    /\ stop_service_watching' = TRUE
    /\ watch_status' = "Inactive"
    /\ UNCHANGED <<cluster_vars, thread_vars, clock, kube_token, pod_logs, pytorchjob_value,
                   registry_vars, checkpoint_widget_vars, services, service_widget_vars,
                   monitor_logs_checkbox, log_monitor_alive, monitor_pods_found,
                   monitor_workers, watch_service_checkbox, service_watch_alive,
                   watch_thread, watch_poll, watch_workers, reports, deploy_result, call>>

\* the user starts and stops the workers
ForegroundShutdown ==
    \/ EnterCredentials(FALSE, FALSE)
    \/ StartLogMonitoring(FALSE, {})
    \/ StopLogMonitoring
    \/ StartServiceWatching
    \/ StopServiceWatching

\* what the user does, while the session object exists
ForegroundStop ==
    \/ ForegroundShutdown
    \/ \E option \in Range(inferenceservice_options) : SelectInferenceService(option)

\* the steps of the thread of _monitor_logs_worker
MonitorWorker ==
    \/ \E list_fails \in BOOLEAN : CycleBegin(list_fails)
    \/ \E fails \in BOOLEAN, n \in 0..MaxLogLines : CycleReadPod(fails, n)
    \/ CycleLine
    \/ CycleExit

\* the steps of the thread of _watch_service_worker
WatchWorker ==
    \/ WatchExit
    \/ WatchPoll(TRUE, FALSE)
    \/ WatchPoll(FALSE, FALSE)

NextStop ==
    \/ ~destroyed /\ ForegroundStop
    \/ Del
    \/ MonitorWorker
    \/ WatchWorker

InitStop == SessionInitOn(StopScenarios, StopServices) /\ call = NoCall

\* the session with both workers, up to its destruction
SpecStop == InitStop /\ [][NextStop]_vars

NextShutdown ==
    \/ ~destroyed /\ ForegroundShutdown
    \/ Del
    \/ MonitorWorker
    \/ WatchWorker

InitShutdown == SessionInitOn(StopScenarios, WatchServices) /\ call = NoCall

\* the session with both workers on one service, up to its destruction; each
\* API call returns and each worker is scheduled
SpecStopFair ==
    InitShutdown /\ [][NextShutdown]_vars /\ WF_vars(MonitorWorker) /\ WF_vars(WatchWorker)

\* C21: a not-found response ends the run of the worker: the poll that gets it
\* prints one deletion message and nothing else, the worker is no longer
\* alive, the stop flag is set and the watcher status is not Error; and no
\* poll follows until the watcher is started again.
C21_NotFoundTerminal ==
    /\ [](watch_poll.outcome = "not_found"
            => /\ watch_poll.printed = {"deleted"}
               /\ ~service_watch_alive
               /\ stop_service_watching
               /\ watch_status # "Error")
    /\ [][watch_poll.outcome = "not_found" /\ watch_poll' # watch_poll
            => StartServiceWatching /\ watch_poll' = NoPoll]_vars

\* the service was deleted under a worker that had already observed it
C21_Witness ==
    /\ watch_poll.outcome = "not_found"
    /\ watch_poll.observed # <<>>
    /\ watch_thread.service_name \notin Range(service_names)
    /\ ~service_watch_alive

\* C22: an API error other than not-found does not end the worker: after the
\* poll that gets it the worker is alive with its locals unchanged and, no
\* stop being requested, at the top of its loop for the next fetch; and the
\* successful poll that follows an error notifies a change exactly when the
\* snapshot differs from the one of the last successful poll.
C22_ErrorNotTerminal ==
    /\ [][\A list_fails \in BOOLEAN :
             WatchPoll(TRUE, list_fails)
                 => /\ service_watch_alive'
                    /\ ~stop_service_watching'
                    /\ watch_thread' = watch_thread
                    /\ watch_poll'.outcome = "error"]_vars
    /\ [](watch_poll.outcome = "ok" /\ watch_poll.retried
            => ("changed" \in watch_poll.printed
                    <=> Differ(watch_poll.observed, watch_poll.previous)))

\* a poll after an error notified a change of the status the worker had
\* observed before the error
C22_Witness ==
    /\ watch_poll.outcome = "ok"
    /\ watch_poll.retried
    /\ watch_poll.previous # <<>>
    /\ Differ(watch_poll.observed, watch_poll.previous)
    /\ "changed" \in watch_poll.printed

\* the user starts and stops the log monitor; list_fails: the listing of the
\* scan that comes first raises, and nothing is recorded before the worker runs
ForegroundCycle ==
    \/ EnterCredentials(FALSE, FALSE)
    \/ \E list_fails \in BOOLEAN : StartLogMonitoring(list_fails, {})
    \/ StopLogMonitoring

NextCycle == ForegroundCycle \/ MonitorWorker

InitCycle == InitOf(StopScenarios)

\* the log monitor alone, step by step; each API call returns and the worker
\* is scheduled
SpecCycleFair == InitCycle /\ [][NextCycle]_vars /\ WF_vars(MonitorWorker)

\* C26: an error of a pod listing or of a pod-log read in a poll cycle does not
\* end the worker and does not change the registry: the step that gets the
\* error leaves the worker alive and the registry as it was, nothing is
\* recorded from a pod whose read failed, and unless a stop is requested the
\* worker lists the pods of a further cycle afterwards.
C26_ErrorsNotFatal ==
    /\ [][monitor_thread'.failed # "none" /\ monitor_thread' # monitor_thread
            => log_monitor_alive' /\ UNCHANGED registry_vars]_vars
    /\ [][log_monitor_alive /\ monitor_thread.failed # "none"
            => UNCHANGED registry_vars]_vars
    /\ (log_monitor_alive /\ monitor_thread.failed # "none"
            ~> \/ stop_monitoring
               \/ /\ log_monitor_alive
                  /\ monitor_thread.pc = "pods"
                  /\ monitor_thread.read = <<>>)

\* the read of the log of the first pod, which holds a checkpoint, failed: the
\* worker goes on to the second pod with nothing recorded
C26_Witness ==
    /\ log_monitor_alive
    /\ ~stop_monitoring
    /\ monitor_thread.failed = "none"
    /\ monitor_thread.read = <<1, 2>>
    /\ detected_checkpoints = {}
    /\ pod_logs[1] # <<>>

\* C23: in every state at most one thread runs the log monitor and at most one
\* runs the watcher, and each is the thread the session holds as alive,
\* whatever starts, stops and selection changes came before; a start request
\* that finds the previous worker alive creates no thread.
C23_OneWorkerEach ==
    /\ [](/\ monitor_workers = (IF log_monitor_alive THEN 1 ELSE 0)
          /\ watch_workers = (IF service_watch_alive THEN 1 ELSE 0))
    /\ [][/\ (StartLogMonitoring(FALSE, {}) /\ log_monitor_alive
                => monitor_workers' = monitor_workers)
           /\ (StartServiceWatching /\ service_watch_alive
                => watch_workers' = watch_workers)]_vars

\* both boxes were checked again while the workers asked to stop were still
\* alive
C23_Witness ==
    /\ ~destroyed
    /\ monitor_logs_checkbox /\ stop_monitoring /\ log_monitor_alive
    /\ watch_service_checkbox /\ stop_service_watching /\ service_watch_alive

\* C25: once a stop of the log monitor is requested its worker asks for the
\* log of no further pod and begins no new cycle, and it terminates; once a
\* stop of the watcher is requested its worker fetches no status and
\* terminates.
C25_StopEffective ==
    /\ [][stop_monitoring
            => /\ monitor_thread'.read = monitor_thread.read
               /\ (monitor_thread.pc = "idle" => monitor_thread'.pc = "idle")]_vars
    /\ [][stop_service_watching /\ service_watch_alive
            => watch_poll' = watch_poll /\ watch_thread' = watch_thread]_vars
    /\ (stop_monitoring /\ log_monitor_alive ~> ~log_monitor_alive)
    /\ (stop_service_watching /\ service_watch_alive ~> ~service_watch_alive)

\* the stop came while the worker handled the first of two pods: the cycle
\* ended without the second
C25_Witness ==
    /\ ~destroyed
    /\ stop_monitoring
    /\ log_monitor_alive
    /\ monitor_thread.pc = "idle"
    /\ monitor_thread.read = <<1>>

\* C29: the destructor sets both stop flags; after it both flags stay set, no
\* worker begins a poll cycle or fetches a status, and the workers alive at
\* that time terminate.
C29_ShutdownStopsBoth ==
    /\ [](destroyed => stop_monitoring /\ stop_service_watching)
    /\ [][destroyed
            => /\ (monitor_thread.pc = "idle" => monitor_thread'.pc = "idle")
               /\ watch_poll' = watch_poll
               /\ monitor_workers' <= monitor_workers
               /\ watch_workers' <= watch_workers]_vars
    /\ (destroyed ~> monitor_workers = 0 /\ watch_workers = 0)

\* the destructor ran while both workers were alive, the log monitor in the
\* middle of a cycle
C29_Witness ==
    /\ destroyed
    /\ log_monitor_alive
    /\ monitor_thread.pc = "lines"
    /\ service_watch_alive
    /\ watch_poll.outcome = "ok"

\* the pods a label selector returns
SelectorPods(selector) == {i \in PodPositions : selector \in pods[i].labels}

\* the selectors of a job, by their place in the declared order, that return
\* a pod
YieldingSelectors(job_name) ==
    {k \in 1..Len(possible_selectors(job_name)) :
        SelectorPods(possible_selectors(job_name)[k]) # {}}

\* the pods of the first selector that returns any
FirstYieldingPods(job_name) ==
    IF YieldingSelectors(job_name) = {} THEN {}
    ELSE SelectorPods(possible_selectors(job_name)[
             CHOOSE k \in YieldingSelectors(job_name) :
                 \A j \in YieldingSelectors(job_name) : k <= j])

\* the pods whose name contains the name of the job
NamedPods(job_name) == {i \in PodPositions : Find(pods[i].name, job_name) # 0}

\* the pods discovery is to come up with
DiscoveredPods(job_name) ==
    IF YieldingSelectors(job_name) # {} THEN FirstYieldingPods(job_name)
    ELSE NamedPods(job_name)

\* the checkpoints in the last window[i] lines of the logs of the pods i of P
YieldsOf(P, window) ==
    {FirstMatchRecord[line] :
        line \in UNION {Range(LastLines(pod_logs[i], window[i])) : i \in P}} \ {None}

\* C27: when a label selector returns pods, a scan and a poll cycle whose API
\* calls succeed read the logs of exactly the pods of the first selector, in
\* the declared order, that returns any: the registry gains the checkpoints
\* of the lines they read in the logs of these pods and nothing else, so that
\* nothing is read from a pod only a later selector matches.
C27_FirstSelector ==
    [][YieldingSelectors(W_train_1) # {}
       => /\ (pytorchjob_value # None /\ ScanCheckpointsButtonClick(FALSE, {})
                => detected_checkpoints' =
                       detected_checkpoints
                           \cup YieldsOf(FirstYieldingPods(W_train_1), WholeLogs))
          /\ \A window \in Windows :
                 MonitorLogsCycle(FALSE, {}, window)
                     => detected_checkpoints' =
                            detected_checkpoints
                                \cup YieldsOf(FirstYieldingPods(W_train_1), window)]_vars

\* two pods under different selectors have both logged a checkpoint, and a
\* pass has recorded the one of the pod of the earlier selector only
C27_Witness ==
    /\ pods = Pods_two
    /\ YieldsOf({1}, WholeLogs) # {}
    /\ YieldsOf({2}, WholeLogs) # {}
    /\ detected_checkpoints = YieldsOf({1}, WholeLogs)
    /\ YieldsOf({2}, WholeLogs) \cap detected_checkpoints = {}

\* how many pods the namespace comes to hold
MaxPods == 2

\* a pod that bears no label of the job starts in the namespace
PodStarts(pod) ==
    /\ Len(pods) < MaxPods
    /\ pod \notin Range(pods)
    /\ pods' = Append(pods, pod)
    /\ pod_logs' = Append(pod_logs, <<>>)
    /\ UNCHANGED <<path_mapping, pytorchjob, training_lines, destroyed, thread_vars,
                   watch_vars, clock, kube_token, pytorchjob_value, registry_vars,
                   checkpoint_widget_vars, services, service_widget_vars, monitor_vars,
                   reports, deploy_result, call>>

\* the namespace holds a pod of somebody else; the pod of the job starts later
DiscoveryScenarios ==
    {Scenario(J_std, T_none, Pods_unrelated, <<<<>>>>, {L_checkpoint_200})}

NextDiscovery ==
    \/ NextCycle
    \/ ScanCheckpointsButtonClick(FALSE, {})
    \/ PodStarts(Pod(W_pod_worker, {}))
    \/ \E i \in PodPositions, line \in training_lines : WriteLogLine(i, line)

InitDiscovery == InitOf(DiscoveryScenarios)

\* discovery in a namespace whose pods come and log while the monitor runs
SpecDiscovery == InitDiscovery /\ [][NextDiscovery]_vars

\* C28: when no label selector returns a pod, the scanner and every poll
\* cycle of the monitor whose listings succeed go through the pods of the
\* namespace whose name contains the job name, also in a cycle after a cycle
\* that found no pod; a scan records the checkpoints of their logs, and with
\* no such pod leaves the registry as it is; the monitor stays alive for its
\* next cycle.
C28_NameFallback ==
    [][YieldingSelectors(W_train_1) = {}
       => /\ (pytorchjob_value # None /\ ScanCheckpointsButtonClick(FALSE, {})
                => detected_checkpoints' =
                       detected_checkpoints \cup YieldsOf(NamedPods(W_train_1), WholeLogs))
          /\ (CycleBegin(FALSE)
                => /\ Range(monitor_thread'.todo) = NamedPods(W_train_1)
                   /\ log_monitor_alive')]_vars

\* C24: a start of the log monitor whose scan succeeds leaves every checkpoint
\* of the full logs of the job's pods in the registry in the very step that
\* brings the worker to life, before the worker has run a cycle.
C24_ScanBeforeWorker ==
    [][StartLogMonitoring(FALSE, {}) /\ ~log_monitor_alive /\ log_monitor_alive'
       => /\ YieldsOf(DiscoveredPods(W_train_1), WholeLogs) \subseteq detected_checkpoints'
          /\ DOMAIN last_checkpoint_time' = detected_checkpoints'
          /\ ~monitor_pods_found']_vars

\* the monitor was started on logs that held a checkpoint: it is recorded, and
\* the worker has not run a cycle yet
C24_Witness ==
    /\ log_monitor_alive
    /\ ~monitor_pods_found
    /\ monitor_logs_checkbox
    /\ reports # <<>>
    /\ YieldsOf(DiscoveredPods(W_train_1), WholeLogs) # {}
    /\ YieldsOf(DiscoveredPods(W_train_1), WholeLogs) \subseteq detected_checkpoints

\* path_mapping = {'/opt/model-dir': '/train'}
T_rewrite == <<<<P_model_dir, P_train>>>>

\* the job has logged a checkpoint under its mount path and one beside it,
\* and the path_mapping rewrites the mount path
RewriteScenarios ==
    {Scenario(J_std, T_rewrite, Pods_master, <<<<L_checkpoint_200, L_sibling>>>>, {})}

InitRewrite == InitOf(RewriteScenarios)

\* deployments under a path_mapping that rewrites the mount path
SpecRewrite == InitRewrite /\ [][NextDeploy]_vars

\* what is left of a path below a mount path
BelowMount(path, mount_path) == SubSeq(path, Len(mount_path) + 2, Len(path))

\* the detected paths, below a mount path of the job, whose entry in the
\* checkpoint list is the selected one
SelectedOriginals ==
    {original \in detected_checkpoints :
        /\ map_path(path_mapping, original) = checkpoints_value
        /\ \E pair \in Pairings :
               /\ StartsWith(original, pair[2] \o <<"/">>)
               /\ BelowMount(original, pair[2]) # <<>>}

\* C30: deploy resolves the original path of the selected record: when the
\* selected entry of the checkpoint list is that of a detected path below the
\* mount path, a deployment in which nothing raises submits one create with
\* storage URI pvc://<pvc>/<original path without the mount path>, whatever
\* the path_mapping holds.
C30_DeployOriginalPath ==
    [][/\ CreateInferenceService("none")
       /\ pytorchjob_value = W_train_1
       /\ inference_service_name # <<>>
       /\ Pairings = {<<W_models_pvc, P_model_dir>>}
       => \A original \in SelectedOriginals :
              /\ Len(deploy_result'.requests) = 1
              /\ UriOf(deploy_result'.requests[1]) =
                     W_pvc_scheme \o W_models_pvc \o <<"/">>
                         \o BelowMount(original, P_model_dir)]_vars

(***************************************************************************)
(* Restarting, stopping and the status of the workers                      *)
(***************************************************************************)

\* C31: a restart is not lost: while the monitoring box is checked with a job
\* selected, the log monitor comes to run with its stop flag clear, unless the
\* box is unchecked again or the session is destroyed, also when the box was
\* checked before the previous worker found the flag and returned; and the
\* same for the watcher box with a service selected.
C31_RestartNotLost ==
    /\ (monitor_logs_checkbox /\ pytorchjob_value # None /\ ~destroyed
            ~> \/ log_monitor_alive /\ ~stop_monitoring
               \/ ~monitor_logs_checkbox
               \/ destroyed)
    /\ (watch_service_checkbox /\ inferenceservice_value # None /\ ~destroyed
            ~> \/ service_watch_alive /\ ~stop_service_watching
               \/ ~watch_service_checkbox
               \/ destroyed)

\* C32: a poll of the watcher that finds the watched service on the cluster,
\* with the refresh of the service list it runs on a status change, leaves the
\* stop flag clear: the flag is only set by a stop request or a selection
\* change of the user, by a not-found response or by a fatal error.
C32_StatusChangeKeepsWatching ==
    [][\A list_fails \in BOOLEAN :
          /\ watch_thread.service_name \in Range(service_names)
          /\ WatchPoll(FALSE, list_fails)
          => ~stop_service_watching']_vars

\* an exception escapes the loop of _monitor_logs_worker, between two cycles
\* or before the first: "except Exception" prints the fatal error and the
\* thread ends through the finally clause
MonitorFatal ==
    /\ log_monitor_alive
    /\ monitor_thread.pc = "idle"
    /\ log_monitor_alive' = FALSE
    /\ monitor_workers' = monitor_workers - 1
    /\ log_status' = log_status_when_leaving(stop_monitoring, log_status)
    /\ UNCHANGED <<cluster_vars, destroyed, thread_vars, watch_vars, clock, kube_token,
                   pod_logs, pytorchjob_value, registry_vars, checkpoint_widget_vars,
                   services, service_widget_vars, monitor_logs_checkbox, stop_monitoring,
                   monitor_pods_found, reports, deploy_result, call>>

\* an exception escapes the loop of _watch_service_worker: the thread ends
\* through the finally clause
WatchFatal ==
    /\ service_watch_alive
    /\ service_watch_alive' = FALSE
    /\ watch_workers' = watch_workers - 1
    /\ watch_status' = status_when_leaving(stop_service_watching, watch_status)
    /\ watch_poll' = [watch_poll EXCEPT !.outcome = "fatal", !.printed = {"fatal"}]
    /\ UNCHANGED <<watch_frame, services, service_widget_vars, watch_service_checkbox,
                   stop_service_watching, watch_thread>>

NextStatus ==
    \/ NextShutdown
    \/ \E i \in 1..Len(services) : ClusterDeletesService(i)
    \/ MonitorFatal
    \/ WatchFatal

\* the session with both workers on one service that may be deleted; a
\* worker may end by a fatal error
SpecStatus == InitShutdown /\ [][NextStatus]_vars

\* C33: the status of a worker becomes Error only in a step in which that
\* worker terminates while its stop flag is clear; a log monitor or a watcher
\* that terminates with its flag set, and a watcher that terminates after a
\* not-found response, leave a status that is not Error.
C33_ErrorOnlyWithoutStop ==
    /\ [][/\ (log_status' = "Error" /\ log_status # "Error"
                => log_monitor_alive /\ ~log_monitor_alive' /\ ~stop_monitoring)
          /\ (watch_status' = "Error" /\ watch_status # "Error"
                => service_watch_alive /\ ~service_watch_alive' /\ ~stop_service_watching)
          /\ (log_monitor_alive /\ ~log_monitor_alive' /\ stop_monitoring
                => log_status' # "Error")
          /\ (service_watch_alive /\ ~service_watch_alive' /\ stop_service_watching
                => watch_status' # "Error")]_vars
    /\ [](watch_poll.outcome = "not_found" /\ ~service_watch_alive
            => watch_status # "Error")

\* the log monitor ended by a fatal error and shows Error; the watcher ended
\* on a not-found response and shows Inactive
C33_Witness ==
    /\ ~log_monitor_alive /\ ~stop_monitoring /\ log_status = "Error"
    /\ ~service_watch_alive /\ watch_poll.outcome = "not_found"
    /\ watch_status = "Inactive"

\* C34: a failed poll leaves the last-seen snapshot of the worker as it was,
\* and the first successful poll after one or more failed polls that observes
\* the same snapshot as the last successful poll before them prints neither
\* the change notification nor "is now READY".
C34_ErrorKeepsSnapshot ==
    /\ [][watch_poll'.outcome = "error" /\ service_watch_alive'
            => /\ watch_thread'.last_full_status = watch_thread.last_full_status
               /\ watch_thread'.last_ready_status = watch_thread.last_ready_status
               /\ watch_poll'.observed = watch_poll.observed]_vars
    /\ [](/\ watch_poll.outcome = "ok"
          /\ watch_poll.retried
          /\ watch_poll.previous # <<>>
          /\ SnapshotOf(watch_poll.observed) = SnapshotOf(watch_poll.previous)
          => watch_poll.printed = {})

\* after a poll that observed the service Ready and one that failed, a poll
\* observed the same snapshot and printed nothing
C34_Witness ==
    /\ watch_poll.outcome = "ok"
    /\ watch_poll.retried
    /\ watch_poll.previous # <<>>
    /\ SnapshotOf(watch_poll.observed) = SnapshotOf(watch_poll.previous)
    /\ ReadyStatusOf(watch_poll.observed) = "True"
    /\ watch_poll.printed = {}

(***************************************************************************)
(* The scan and the registry                                               *)
(***************************************************************************)

\* C35: a full scan whose listings succeed goes through every discovered pod
\* whatever log reads fail: it adds to the registry the checkpoints of the
\* whole logs of exactly the pods whose read succeeded, before and after a
\* pod whose read failed, and removes nothing.
C35_ScanSurvivesPodFailure ==
    [][\A unread \in SUBSET PodPositions :
          /\ kube_token
          /\ pytorchjob_value # None
          /\ ScanCheckpointsButtonClick(FALSE, unread)
          => LET found == YieldsOf(DiscoveredPods(W_train_1) \ unread, WholeLogs)
             IN  /\ detected_checkpoints' = detected_checkpoints \cup found
                 /\ DOMAIN last_checkpoint_time' = DOMAIN last_checkpoint_time \cup found]_vars

\* of two pods that have each logged a checkpoint the scan failed to read the
\* first one and recorded the checkpoint of the second
C35_Witness ==
    /\ DiscoveredPods(W_train_1) = {1, 2}
    /\ training_lines = {}
    /\ YieldsOf({1}, WholeLogs) # {}
    /\ YieldsOf({1}, WholeLogs) \cap detected_checkpoints = {}
    /\ YieldsOf({2}, WholeLogs) # {}
    /\ YieldsOf({2}, WholeLogs) \subseteq detected_checkpoints
    /\ reports # <<>>
    /\ \A i \in 1..Len(reports) : reports[i].by = "scan"

\* the orders in which an iteration may visit the elements of a set
Orders(S) == {o \in [1..Cardinality(S) -> S] : Range(o) = S}

\* C36: the list find_checkpoints() returns is a function of the set of
\* recorded original paths and of the rewrite table: whatever the order in
\* which the set is gone through, which is what the history of its insertions
\* by the scanner and the monitor can change, the list is the same.
C36_OrderIndependent ==
    \A o1, o2 \in Orders(detected_checkpoints) :
        /\ find_checkpoints_over(o1) = find_checkpoints_over(o2)
        /\ find_checkpoints_over(o1) = find_checkpoints

\* two paths are recorded under a rewrite table that applies to one of them
C36_Witness ==
    /\ Cardinality(detected_checkpoints) >= 2
    /\ path_mapping # <<>>
    /\ \E p \in detected_checkpoints : map_checkpoint_path(p) # p
    /\ Len(find_checkpoints) = Cardinality(detected_checkpoints)

\* the flag and the worker of the log monitor, and those of the watcher
monitor_control == <<stop_monitoring, log_monitor_alive, monitor_workers, monitor_thread>>

watcher_control == <<stop_service_watching, service_watch_alive, watch_workers, watch_thread>>

\* C37: a start or a stop of the log monitor leaves the stop flag and the
\* worker of the watcher as they were, a start or a stop of the watcher
\* leaves the stop flag and the worker of the log monitor as they were, and a
\* stop of either leaves the registry as it was.
C37_IndependentControl ==
    [][/\ (StartLogMonitoring(FALSE, {}) \/ StopLogMonitoring
             => UNCHANGED watcher_control)
       /\ (StartServiceWatching \/ StopServiceWatching
             => UNCHANGED monitor_control)
       /\ (StopLogMonitoring \/ StopServiceWatching
             => UNCHANGED registry_vars)]_vars

\* the log monitor was asked to stop while the watcher was active, with a
\* checkpoint in the registry: the watcher goes on
C37_Witness ==
    /\ ~destroyed
    /\ ~monitor_logs_checkbox /\ stop_monitoring /\ log_monitor_alive
    /\ watch_service_checkbox /\ ~stop_service_watching /\ service_watch_alive
    /\ watch_status = "Active"
    /\ detected_checkpoints # {}

\* the user, the listings of whose refreshes may fail, and the two workers
NextReject ==
    \/ NextStop
    \/ \E jobs_fail \in BOOLEAN : ~destroyed /\ RefreshJobsButtonClick(jobs_fail)
    \/ WatchPoll(FALSE, TRUE)

\* the session with both workers; a refresh may leave a dropdown empty
SpecReject == InitStop /\ [][NextReject]_vars

\* C38: a start of the log monitor with no job selected, and a start of the
\* watcher with no service selected, create no thread, run no scan and no
\* poll (no call to the cluster), leave the registry as it was and leave the
\* box of the worker unchecked.
C38_StartRejected ==
    [][/\ (pytorchjob_value = None /\ StartLogMonitoring(FALSE, {})
             => /\ monitor_workers' = monitor_workers
                /\ log_monitor_alive' = log_monitor_alive
                /\ UNCHANGED <<registry_vars, checkpoint_widget_vars, reports, monitor_thread>>
                /\ ~monitor_logs_checkbox')
       /\ (inferenceservice_value = None /\ StartServiceWatching
             => /\ watch_workers' = watch_workers
                /\ service_watch_alive' = service_watch_alive
                /\ UNCHANGED <<registry_vars, watch_thread, watch_poll>>
                /\ ~watch_service_checkbox')]_vars

\* a scan and the monitor at work together, statement by statement, at one
\* time of the clock
NextKeys ==
    \/ ForegroundIdle /\ EnterCredentials(FALSE, FALSE)
    \/ \E i \in PodPositions, line \in training_lines : WriteLogLine(i, line)
    \/ ForegroundIdle /\ StartLogMonitoring(FALSE, {})
    \/ ForegroundIdle /\ StopLogMonitoring
    \/ monitor_thread.pc = "idle" /\ MonitorLogsExit
    \/ ScanBegin
    \/ ScanNextMatch
    \/ ScanTest
    \/ ScanAdd
    \/ ScanWriteTime
    \/ ScanUpdateBegin
    \/ \E raises \in BOOLEAN : ScanUpdateEnd(raises)
    \/ \E window \in Windows : MonitorBegin(window)
    \/ MonitorNextMatch
    \/ MonitorTest
    \/ MonitorWriteTime
    \/ MonitorAdd
    \/ \E raises \in BOOLEAN : MonitorUpdateEnd(raises)
    \/ MonitorCycleEnd

SpecKeys == InitOf(RaceScenarios) /\ [][NextKeys]_vars

\* the scanner has added a path to the set and not yet stored its timestamp
ScanRecording == scan_thread.pc = "write"

\* the monitor has stored the timestamp of a path and not yet added it to the
\* set
MonitorRecording == monitor_thread.pc = "add"

\* C39: whenever neither the scanner nor the monitor is between its two
\* writes of a path, the set of detected paths is the set of the paths that
\* have a timestamp, so that the test of the scanner (on the set) and the
\* test of the monitor (on the timestamps) give the same answer for every
\* path.
C39_KeysAgree ==
    ~ScanRecording /\ ~MonitorRecording
        => detected_checkpoints = DOMAIN last_checkpoint_time

\* the scan and the cycle under way have both recorded a path as new, and both
\* are past their writes
C39_Witness ==
    /\ ~ScanRecording
    /\ ~MonitorRecording
    /\ detected_checkpoints # {}
    /\ detected_checkpoints = DOMAIN last_checkpoint_time
    /\ \E i \in 1..Len(scan_thread.printed) : scan_thread.printed[i].new
    /\ \E i \in 1..Len(monitor_thread.printed) : monitor_thread.printed[i].new

====
